---- MODULE Spec2Model ----
(***************************************************************************)
(* Classification engine of MyFinance: the proposal store                  *)
(* (ClassificationService), the batch classification of EmbeddingService,  *)
(* the rule CRUD of RuleService and the durable TransactionCluster of      *)
(* ClusterService, over a relational store.                                *)
(*                                                                         *)
(* Distances and thresholds are in thousandths (0.22 is 220).  A nullable  *)
(* id is 0 when null, a nullable string is "none" when null, a nullable    *)
(* JSON list is << >> when null.                                           *)
(***************************************************************************)
EXTENDS Integers, Sequences, FiniteSets, TLC

VARIABLES db, seq, last, sess

vars == <<db, seq, last, sess>>

(***************************************************************************)
(* Bounds of the model.                                                    *)
(***************************************************************************)
MaxClusterId == 4
MaxTClusters == 1
MaxConcClusterId == 6
MaxRuleId == 3

(***************************************************************************)
(* The fixed world: two users, one account each, the imported transactions *)
(* and the categories.  The encoder is deterministic on the text, so the   *)
(* vector of a transaction is a function of the transaction.               *)
(***************************************************************************)
Users == {1, 2}
Accounts == {1, 2}
AccountOwner == [a \in Accounts |-> a]
TxnIds == 1..9
TxnAccount == [t \in TxnIds |-> IF t <= 6 THEN 1 ELSE 2]
Amount == [t \in TxnIds |-> IF t \in 4..6 THEN 20 ELSE 10]
Embed == [t \in TxnIds |->
            CASE t \in {1, 7} -> 0
              [] t \in {2, 8} -> 40
              [] t \in {3, 9} -> 120
              [] t = 4 -> 600
              [] t = 5 -> 640
              [] OTHER -> 720]
Categories == {1, 2}
CategoryName == [c \in Categories |-> IF c = 1 THEN "Courses" ELSE "Loyer"]
\* the vector of the path of a category, on the line of the transactions
CategoryEmbed == [c \in Categories |-> IF c = 1 THEN 0 - 300 ELSE 1250]
BadCategory == Cardinality(Categories) + 1
Thresholds == {220, 1000}
CallerSplitThresholds == {0, 50}
LabelRaw == [t \in TxnIds |-> IF t \in {1, 2, 3, 7, 8, 9} THEN "AMAZON" ELSE "LOYER"]
Lower == [x \in {"AMAZON", "amazon", "LOYER", "Courses", "AMA", "ZON", "courses", "Loyer",
                  "Inconnu", ""} |->
            CASE x = "AMAZON" -> "amazon" [] x = "amazon" -> "amazon"
              [] x = "LOYER" -> "loyer" [] x = "AMA" -> "ama" [] x = "ZON" -> "zon"
              [] x = "Loyer" -> "loyer" [] x = "Inconnu" -> "inconnu" [] x = "" -> ""
              [] OTHER -> "courses"]
\* the characters of the lowercased texts
Chars == [x \in {"amazon", "loyer", "courses", "ama", "zon"} |->
            CASE x = "amazon" -> <<"a", "m", "a", "z", "o", "n">>
              [] x = "loyer" -> <<"l", "o", "y", "e", "r">>
              [] x = "ama" -> <<"a", "m", "a">>
              [] x = "zon" -> <<"z", "o", "n">>
              [] OTHER -> <<"c", "o", "u", "r", "s", "e", "s">>]

embedding_min_cluster_size == 3
DerivedRulePriority == 10
SplitThresholdMin == 80
SplitThresholdMax == 500
embedding_similarity_high == 850
embedding_similarity_medium == 700
embedding_similarity_low == 550
embedding_category_threshold == 400
embedding_category_prefer_threshold == 620
NeighborsK == 5

(***************************************************************************)
(* Helpers on sequences and sets.                                          *)
(***************************************************************************)
SeqToSet(s) == {s[i] : i \in DOMAIN s}

Min(S) == CHOOSE x \in S : \A y \in S : x <= y

Max(S) == CHOOSE x \in S : \A y \in S : x >= y

RECURSIVE SetToSeq(_)
SetToSeq(S) == IF S = {} THEN << >> ELSE <<Min(S)>> \o SetToSeq(S \ {Min(S)})

RECURSIVE SumOver(_, _)
SumOver(f, S) == IF S = {} THEN 0
                 ELSE LET x == CHOOSE y \in S : TRUE IN f[x] + SumOver(f, S \ {x})

Abs(x) == IF x < 0 THEN -x ELSE x

(***************************************************************************)
(* Cosine distance matrix and average-linkage agglomerative clustering     *)
(* with a distance threshold and no fixed cluster count.                   *)
(***************************************************************************)
Distance(i, j) == Abs(Embed[i] - Embed[j])

RECURSIVE LinkSum(_, _)
LinkSum(P, Q) == IF P = {} THEN 0
                 ELSE LET i == CHOOSE x \in P : TRUE
                      IN SumOver([j \in Q |-> Distance(i, j)], Q) + LinkSum(P \ {i}, Q)

\* average linkage of pair a is below that of pair b (ties: lowest members first)
LinkLess(a, b) ==
    LET sa == LinkSum(a[1], a[2]) * Cardinality(b[1]) * Cardinality(b[2])
        sb == LinkSum(b[1], b[2]) * Cardinality(a[1]) * Cardinality(a[2])
    IN \/ sa < sb
       \/ sa = sb /\ Min(a[1]) < Min(b[1])
       \/ sa = sb /\ Min(a[1]) = Min(b[1]) /\ Min(a[2]) <= Min(b[2])

RECURSIVE AgglomerativeClustering_Inverted(_, _)
AgglomerativeClustering_Inverted(parts, threshold) ==
    IF Cardinality(parts) < 2 THEN parts
    ELSE LET pairs == {pq \in parts \X parts : Min(pq[1]) < Min(pq[2])}
             best == CHOOSE a \in pairs : \A b \in pairs : LinkLess(a, b)
         IN IF LinkSum(best[1], best[2])
                 < threshold * Cardinality(best[1]) * Cardinality(best[2])
            THEN parts
            ELSE AgglomerativeClustering_Inverted(
                     (parts \ {best[1], best[2]}) \cup {best[1] \cup best[2]}, threshold)

RECURSIVE AgglomerativeClustering(_, _)
AgglomerativeClustering(parts, threshold) ==
    IF Cardinality(parts) < 2 THEN parts
    ELSE LET pairs == {pq \in parts \X parts : Min(pq[1]) < Min(pq[2])}
             best == CHOOSE a \in pairs : \A b \in pairs : LinkLess(a, b)
         IN IF LinkSum(best[1], best[2])
                 >= threshold * Cardinality(best[1]) * Cardinality(best[2])
            THEN parts
            ELSE AgglomerativeClustering(
                     (parts \ {best[1], best[2]}) \cup {best[1] \cup best[2]}, threshold)

\* recluster lines 397-398: the caller's value, else half the proposal's, clamped
SplitThreshold(distance_threshold, proposal_threshold) ==
    LET threshold == IF distance_threshold # 0 THEN distance_threshold
                     ELSE proposal_threshold \div 2
        capped == IF threshold < SplitThresholdMax THEN threshold ELSE SplitThresholdMax
    IN IF capped > SplitThresholdMin THEN capped ELSE SplitThresholdMin

\* the groupings of every scoped subset, computed once
SplitThresholds == {SplitThreshold(c, t) : c \in CallerSplitThresholds, t \in Thresholds}

ScopedSubsets == UNION {SUBSET {t \in TxnIds : TxnAccount[t] = a} : a \in Accounts}

\* the thresholds a caller of get_clusters gives
ClusterThresholds == {40, 50, 80, 100, 110, 220, 500, 1000}

fit_predict == [S \in ScopedSubsets, th \in Thresholds \cup SplitThresholds \cup ClusterThresholds |->
                  AgglomerativeClustering({{t} : t \in S}, th)]

TotalAmountAbs(S) == SumOver([t \in S |-> Abs(Amount[t])], S)

\* sorted by total absolute amount descending, then size descending (stable)
ClusterBefore(P, Q) ==
    \/ TotalAmountAbs(P) > TotalAmountAbs(Q)
    \/ TotalAmountAbs(P) = TotalAmountAbs(Q) /\ Cardinality(P) > Cardinality(Q)
    \/ TotalAmountAbs(P) = TotalAmountAbs(Q) /\ Cardinality(P) = Cardinality(Q)
       /\ Min(P) <= Min(Q)

RECURSIVE cluster_sort(_)
cluster_sort(parts) ==
    IF parts = {} THEN << >>
    ELSE LET first == CHOOSE P \in parts : \A Q \in parts : ClusterBefore(P, Q)
         IN <<SetToSeq(first)>> \o cluster_sort(parts \ {first})

(***************************************************************************)
(* Scoped queries.                                                         *)
(***************************************************************************)
UserAccounts(u) == {a \in Accounts : AccountOwner[a] = u}

\* account_id = 0 stands for "no account filter"
InScope(u, account_id, t) ==
    /\ TxnAccount[t] \in UserAccounts(u)
    /\ (account_id # 0 => TxnAccount[t] = account_id)

\* a suggestion: category 0 and "none" when there is none
NoSuggestion == [category_id |-> 0, confidence |-> "none", source |-> "none"]

\* the mean vector of a group
Centroid(ids) == SumOver(Embed, ids) \div Cardinality(ids)

\* cosine similarity of a centroid and a transaction
Similarity(centroid, t) == 1000 - Abs(centroid - Embed[t])

\* _get_classified_transactions_with_embeddings
Classified(txn, u, account_id) ==
    {t \in TxnIds : /\ InScope(u, account_id, t)
                    /\ ~txn[t].deleted
                    /\ txn[t].category_id # 0
                    /\ txn[t].embedding}

\* _suggest_from_neighbors: weighted vote of the nearest classified
\* transactions whose similarity reaches the low threshold
suggest_from_neighbors(txn, centroid, classified) ==
    LET Before(a, b) == \/ Similarity(centroid, a) > Similarity(centroid, b)
                        \/ Similarity(centroid, a) = Similarity(centroid, b) /\ a > b
        Rank(t) == Cardinality({o \in classified : Before(o, t)})
        top == {t \in classified : Rank(t) < NeighborsK}
        best_sim == Max({Similarity(centroid, t) : t \in top})
        voters == {t \in top : Similarity(centroid, t) >= embedding_similarity_low}
        Score(cat) == SumOver([t \in voters |-> Similarity(centroid, t)],
                              {t \in voters : txn[t].category_id = cat})
        cats == {txn[t].category_id : t \in voters}
        tied == {c \in cats : \A o \in cats : Score(c) >= Score(o)}
        first == CHOOSE t \in voters :
                    /\ txn[t].category_id \in tied
                    /\ \A o \in voters : txn[o].category_id \in tied => Rank(t) <= Rank(o)
    IN IF classified = {} THEN NoSuggestion
       ELSE IF best_sim < embedding_similarity_low THEN NoSuggestion
       ELSE [category_id |-> txn[first].category_id,
             confidence |-> IF best_sim >= embedding_similarity_high THEN "high"
                            ELSE IF best_sim >= embedding_similarity_medium THEN "medium"
                            ELSE "low",
             source |-> "similar_transactions"]

\* the language model during one call: not enabled or not reachable
\* (LlmOff), or available with the category its answers name, 0 when they
\* name none that is usable
LlmOff == [available |-> FALSE, category_id |-> 0]

LlmOutcomes ==
    {LlmOff} \cup {[available |-> TRUE, category_id |-> c] : c \in {0} \cup Categories}

\* LLMService.suggest_category on an outcome
llm_suggestion(llm) ==
    IF ~llm.available \/ llm.category_id = 0 THEN NoSuggestion
    ELSE [category_id |-> llm.category_id, confidence |-> "medium", source |-> "llm"]

\* get_clusters lines 548-603: the neighbours first, the language model for
\* the clusters the neighbours gave nothing for
cluster_suggestion(txn, u, account_id, ids, llm) ==
    LET suggestion == suggest_from_neighbors(txn, Centroid(SeqToSet(ids)),
                                             Classified(txn, u, account_id))
    IN IF suggestion # NoSuggestion THEN suggestion ELSE llm_suggestion(llm)

\* _get_best_category_suggestion: the closest category, whatever its similarity
get_best_category_suggestion(vector) ==
    LET Sim(c) == 1000 - Abs(vector - CategoryEmbed[c])
        best == CHOOSE c \in Categories :
                   /\ \A o \in Categories : Sim(c) >= Sim(o)
                   /\ \A o \in Categories : Sim(o) = Sim(c) => c <= o
    IN [category_id |-> best,
        confidence |-> IF Sim(best) >= embedding_similarity_medium THEN "medium" ELSE "low",
        similarity |-> Sim(best),
        source |-> "category_semantics"]

\* a suggestion without its similarity
Stored(suggestion) ==
    [category_id |-> suggestion.category_id, confidence |-> suggestion.confidence,
     source |-> suggestion.source]

\* suggest_category_for_transaction, lines 246-299, under a value prefer_cat
\* of the setting embedding_category_prefer_threshold
suggest_category_with(prefer_cat, txn, u, t, llm) ==
    LET cat_suggestion == get_best_category_suggestion(Embed[t])
        suggestion == suggest_from_neighbors(txn, Embed[t], Classified(txn, u, 0))
    IN IF ~txn[t].embedding THEN NoSuggestion
       ELSE IF cat_suggestion.similarity >= prefer_cat
       THEN Stored(cat_suggestion)
       ELSE IF suggestion # NoSuggestion THEN suggestion
       ELSE IF llm.available THEN llm_suggestion(llm)
       ELSE IF cat_suggestion.similarity >= embedding_category_threshold
       THEN Stored(cat_suggestion)
       ELSE NoSuggestion

\* the same under the default of the setting (config.py line 51)
suggest_category_for_transaction(txn, u, t, llm) ==
    suggest_category_with(embedding_category_prefer_threshold, txn, u, t, llm)

\* EmbeddingService.get_clusters
get_clusters_DropNoise(txn, u, account_id, min_cluster_size, distance_threshold, llm) ==
    LET uncategorized == {t \in TxnIds : /\ InScope(u, account_id, t)
                                         /\ ~txn[t].deleted
                                         /\ txn[t].category_id = 0
                                         /\ txn[t].embedding}
        total == Cardinality({t \in TxnIds : /\ InScope(u, account_id, t)
                                             /\ ~txn[t].deleted
                                             /\ txn[t].category_id = 0})
        groups == fit_predict[uncategorized, distance_threshold]
        kept == {g \in groups : Cardinality(g) >= min_cluster_size}
        noise == {g \in groups : Cardinality(g) < min_cluster_size}
    IN IF uncategorized = {}
       THEN [clusters |-> << >>, suggestions |-> << >>, unclustered_count |-> 0,
             total_uncategorized |-> 0]
       ELSE IF Cardinality(uncategorized) < min_cluster_size
       THEN [clusters |-> << >>, suggestions |-> << >>,
             unclustered_count |-> Cardinality(uncategorized),
             total_uncategorized |-> total]
       ELSE [clusters |-> cluster_sort(kept),
             suggestions |-> [i \in 1..Cardinality(kept) |->
                                cluster_suggestion(txn, u, account_id,
                                                   cluster_sort(kept)[i], llm)],
             unclustered_count |-> 0,
             total_uncategorized |-> total]

get_clusters(txn, u, account_id, min_cluster_size, distance_threshold, llm) ==
    LET uncategorized == {t \in TxnIds : /\ InScope(u, account_id, t)
                                         /\ ~txn[t].deleted
                                         /\ txn[t].category_id = 0
                                         /\ txn[t].embedding}
        total == Cardinality({t \in TxnIds : /\ InScope(u, account_id, t)
                                             /\ ~txn[t].deleted
                                             /\ txn[t].category_id = 0})
        groups == fit_predict[uncategorized, distance_threshold]
        kept == {g \in groups : Cardinality(g) >= min_cluster_size}
        noise == {g \in groups : Cardinality(g) < min_cluster_size}
    IN IF uncategorized = {}
       THEN [clusters |-> << >>, suggestions |-> << >>, unclustered_count |-> 0,
             total_uncategorized |-> 0]
       ELSE IF Cardinality(uncategorized) < min_cluster_size
       THEN [clusters |-> << >>, suggestions |-> << >>,
             unclustered_count |-> Cardinality(uncategorized),
             total_uncategorized |-> total]
       ELSE [clusters |-> cluster_sort(kept),
             suggestions |-> [i \in 1..Cardinality(kept) |->
                                cluster_suggestion(txn, u, account_id,
                                                   cluster_sort(kept)[i], llm)],
             unclustered_count |-> Cardinality(UNION noise),
             total_uncategorized |-> total]

(***************************************************************************)
(* Rows.                                                                   *)
(***************************************************************************)
\* the most frequent label of a group, the first met when several are
representative_label(ids) ==
    LET Count(l) == Cardinality({i \in DOMAIN ids : LabelRaw[ids[i]] = l})
        first == CHOOSE i \in DOMAIN ids :
                    /\ \A j \in DOMAIN ids : Count(LabelRaw[ids[i]]) >= Count(LabelRaw[ids[j]])
                    /\ \A j \in DOMAIN ids :
                          Count(LabelRaw[ids[j]]) = Count(LabelRaw[ids[i]]) => i <= j
    IN IF ids = << >> THEN "none" ELSE LabelRaw[ids[first]]

NewCluster(id, proposal_id, index, ids, suggestion) ==
    [id |-> id, proposal_id |-> proposal_id, cluster_index |-> index,
     transaction_ids |-> ids, representative_label |-> representative_label(ids),
     suggested_category_id |-> suggestion.category_id,
     suggestion_confidence |-> suggestion.confidence,
     suggestion_source |-> suggestion.source,
     status |-> "pending", override_category_id |-> 0,
     rule_pattern |-> "none", custom_label |-> "none", excluded_ids |-> << >>]

NewRule(id, u, pattern, match_type, category_id, custom_label, priority) ==
    [id |-> id, user_id |-> u, pattern |-> pattern, match_type |-> match_type,
     category_id |-> category_id, custom_label |-> custom_label,
     priority |-> priority, is_active |-> TRUE, created_by |-> "manual"]

FindProposal(proposals, u, account_id) ==
    {p \in proposals : p.user_id = u /\ p.account_id = account_id}

ClustersOf(d, p) == {c \in d.clusters : c.proposal_id = p.id}

\* the unit of work of a request: commit on return, roll back on an exception
get_db(before, after, raised) == IF raised THEN before ELSE after

\* the two requests that may run at the same time, each in its own session
Sessions == {1, 2}

IdleSession == [pc |-> "idle", distance_threshold |-> 0, locks |-> FALSE,
                txn |-> << >>, data |-> << >>, existing |-> {}, old |-> {},
                result |-> "none"]

Idle == [s \in Sessions |-> IdleSession]

\* user 2, the bystander, has recomputed the proposal of its account at the
\* default threshold and created one rule; user 1 has done nothing yet
Bystander == CHOOSE u \in Users : u # 1

\* ready: the labels of account 1 were parsed at import and their vectors
\* computed by the embeddings endpoint
InitialDb(ready) ==
            [txn |-> [t \in TxnIds |->
                        [category_id |-> 0, ai_confidence |-> "none",
                         label_clean |-> "none", deleted |-> FALSE,
                         parsed |-> (TxnAccount[t] = Bystander) \/ ready,
                         embedding |-> (TxnAccount[t] = Bystander) \/ ready]],
             proposals |-> {[id |-> 1, user_id |-> Bystander, account_id |-> Bystander,
                             distance_threshold |-> 220, total_uncategorized |-> 3,
                             unclustered_count |-> 0]},
             clusters |-> {NewCluster(1, 1, 0, <<7, 8, 9>>, NoSuggestion)},
             rules |-> {NewRule(1, Bystander, "AMAZON", "contains", 1, "none", 5)},
             tclusters |-> {}]

Init ==
    /\ db = InitialDb(FALSE)
    /\ seq = [proposal |-> 2, cluster |-> 2, rule |-> 2, tcluster |-> 1]
    /\ last = [op |-> "init", result |-> "ok"]
    /\ sess = Idle

(***************************************************************************)
(* ClassificationService.recalculate                                       *)
(***************************************************************************)
\* lines 79-92: parse never-parsed labels of the account, resetting the vector
ParseLabels(txn, account_id) ==
    [t \in TxnIds |->
        IF TxnAccount[t] = account_id /\ ~txn[t].deleted /\ ~txn[t].parsed
        THEN [txn[t] EXCEPT !.parsed = TRUE, !.embedding = FALSE]
        ELSE txn[t]]

compute_missing_embeddings_OnePerCall(txn, u, account_id) ==
    LET missing == {t \in TxnIds : InScope(u, account_id, t) /\ ~txn[t].deleted
                                    /\ ~txn[t].embedding}
    IN [t \in TxnIds |->
          IF missing # {} /\ t = Min(missing) THEN [txn[t] EXCEPT !.embedding = TRUE]
          ELSE txn[t]]

compute_missing_embeddings_Refresh(txn, u, account_id) ==
    [t \in TxnIds |->
        IF InScope(u, account_id, t) /\ ~txn[t].deleted
        THEN [txn[t] EXCEPT !.embedding = TRUE, !.parsed = TRUE]
        ELSE txn[t]]

\* EmbeddingService.compute_missing_embeddings, lines 92-144
compute_missing_embeddings(txn, u, account_id) ==
    [t \in TxnIds |->
        IF InScope(u, account_id, t) /\ ~txn[t].deleted /\ ~txn[t].embedding
        THEN [txn[t] EXCEPT !.embedding = TRUE]
        ELSE txn[t]]

\* lines 113-147: with the proposal row and the cluster rows the select of
\* lines 103-112 returned (existing, old): delete those clusters, update the
\* row or insert one, insert the clusters of this run
WriteProposal(d, s, existing, old, u, account_id, distance_threshold, data) ==
    LET pid == IF existing = {} THEN s.proposal ELSE (CHOOSE p \in existing : TRUE).id
        row == [id |-> pid, user_id |-> u, account_id |-> account_id,
                distance_threshold |-> distance_threshold,
                total_uncategorized |-> data.total_uncategorized,
                unclustered_count |-> data.unclustered_count]
        n == Len(data.clusters)
    IN [db |-> [d EXCEPT
                  !.proposals = {p \in d.proposals : p.id # pid} \cup {row},
                  !.clusters = {c \in d.clusters : c.id \notin old}
                               \cup {NewCluster(s.cluster + i - 1, pid, i - 1,
                                                data.clusters[i], data.suggestions[i]) : i \in 1..n}],
        seq |-> [s EXCEPT !.proposal = IF existing = {} THEN s.proposal + 1
                                       ELSE s.proposal,
                          !.cluster = s.cluster + n]]

\* lines 103-112: the proposal of the pair, with its clusters
SelectProposal(d, u, account_id) ==
    LET found == FindProposal(d.proposals, u, account_id)
        existing == IF found = {} THEN found ELSE {CHOOSE p \in found : TRUE}
    IN [existing |-> existing,
        old |-> {c.id : c \in {x \in d.clusters : \E p \in existing : x.proposal_id = p.id}}]

ReplaceProposal_KeepClusters(d, s, u, account_id, distance_threshold, data) ==
    LET existing == FindProposal(d.proposals, u, account_id)
        pid == IF existing = {} THEN s.proposal ELSE (CHOOSE p \in existing : TRUE).id
        row == [id |-> pid, user_id |-> u, account_id |-> account_id,
                distance_threshold |-> distance_threshold,
                total_uncategorized |-> data.total_uncategorized,
                unclustered_count |-> data.unclustered_count]
        n == Len(data.clusters)
    IN [db |-> [d EXCEPT
                  !.proposals = (d.proposals \ existing) \cup {row},
                  !.clusters = @ \cup {NewCluster(s.cluster + i - 1, pid, i - 1,
                                                  data.clusters[i], data.suggestions[i]) : i \in 1..n}],
        seq |-> [s EXCEPT !.proposal = IF existing = {} THEN @ + 1 ELSE @,
                          !.cluster = @ + n]]

ReplaceProposal_AlwaysInsert(d, s, u, account_id, distance_threshold, data) ==
    LET n == Len(data.clusters)
    IN [db |-> [d EXCEPT
                  !.proposals = @ \cup {[id |-> s.proposal, user_id |-> u,
                                         account_id |-> account_id,
                                         distance_threshold |-> distance_threshold,
                                         total_uncategorized |-> data.total_uncategorized,
                                         unclustered_count |-> data.unclustered_count]},
                  !.clusters = @ \cup {NewCluster(s.cluster + i - 1, s.proposal, i - 1,
                                                  data.clusters[i], data.suggestions[i]) : i \in 1..n}],
        seq |-> [s EXCEPT !.proposal = @ + 1, !.cluster = @ + n]]

\* lines 103-147 in one session
ReplaceProposal(d, s, u, account_id, distance_threshold, data) ==
    LET read == SelectProposal(d, u, account_id)
    IN WriteProposal(d, s, read.existing, read.old, u, account_id, distance_threshold, data)

RecalculateResult(d, s, u, account_id, distance_threshold, llm) ==
    LET parsed == ParseLabels(d.txn, account_id)
        embedded == compute_missing_embeddings(parsed, u, account_id)
        data == get_clusters(embedded, u, account_id, embedding_min_cluster_size,
                             distance_threshold, llm)
    IN ReplaceProposal([d EXCEPT !.txn = embedded], s, u, account_id,
                       distance_threshold, data)

\* uq_classification_proposals_user_account
UniqueUserAccount(proposals) ==
    \A p, q \in proposals :
        p.user_id = q.user_id /\ p.account_id = q.account_id => p.id = q.id

Recalculate(u, account_id, distance_threshold, llm) ==
    \E r \in {RecalculateResult(db, seq, u, account_id, distance_threshold, llm)} :
    LET result == IF AccountOwner[account_id] # u THEN "ValueError"
                  ELSE IF ~UniqueUserAccount(r.db.proposals) THEN "IntegrityError"
                  ELSE "ok"
    IN /\ IF result # "ok" THEN TRUE ELSE r.seq.cluster <= MaxClusterId + 1
       /\ db' = get_db(db, r.db, result # "ok")
       /\ seq' = IF result # "ok" THEN seq ELSE r.seq
       /\ last' = [op |-> "recalculate", result |-> result]
       /\ UNCHANGED sess

(***************************************************************************)
(* Constraints of the schema, checked when a unit of work flushes.         *)
(***************************************************************************)
CategoryFK_Unchecked(category_id) == TRUE

\* ForeignKey("categories.id") on a nullable column
CategoryFK(category_id) == category_id = 0 \/ category_id \in Categories

\* classification_proposal_clusters.override_category_id
ClusterCategoryFK(clusters) == \A c \in clusters : CategoryFK(c.override_category_id)

\* transaction_clusters.category_id
TClusterCategoryFK(tclusters) == \A c \in tclusters : CategoryFK(c.category_id)

(***************************************************************************)
(* ClassificationService.patch_proposal                                    *)
(***************************************************************************)
NoUpdate == [cluster_id |-> 0, keys |-> {}, status |-> "none", override_category_id |-> 0,
             rule_pattern |-> "none", custom_label |-> "none", excluded_ids |-> << >>]

\* value or None for a text: the empty text and None are stored as None
OrNone(value) == IF value = "" THEN "none" ELSE value

ApplyUpdate_Whole(c, upd) ==
    [c EXCEPT !.status = IF upd.status \notin {"none", ""} THEN upd.status ELSE @,
              !.override_category_id = upd.override_category_id,
              !.rule_pattern = OrNone(upd.rule_pattern),
              !.custom_label = OrNone(upd.custom_label),
              !.excluded_ids = upd.excluded_ids]

\* lines 189-199: the fields one update sets on its cluster; a status that is
\* None or empty is skipped, the other empty values are stored as None (an
\* empty list of excluded ids and None are both << >>)
ApplyUpdate(c, upd) ==
    [c EXCEPT
       !.status = IF "status" \in upd.keys /\ upd.status \notin {"none", ""}
                  THEN upd.status ELSE @,
       !.override_category_id =
           IF "override_category_id" \in upd.keys THEN upd.override_category_id ELSE @,
       !.rule_pattern = IF "rule_pattern" \in upd.keys THEN OrNone(upd.rule_pattern) ELSE @,
       !.custom_label = IF "custom_label" \in upd.keys THEN OrNone(upd.custom_label) ELSE @,
       !.excluded_ids = IF "excluded_ids" \in upd.keys THEN upd.excluded_ids ELSE @]

\* line 187-188: an update naming a cluster outside the proposal
UnknownCluster(cluster_by_id, upd) == upd.cluster_id \notin {c.id : c \in cluster_by_id}

\* lines 184-199: the loop over the update list
RECURSIVE ApplyUpdates(_, _, _)
ApplyUpdates(clusters, owned, updates) ==
    IF updates = << >> THEN clusters
    ELSE LET upd == Head(updates)
             step == IF UnknownCluster(owned, upd) THEN clusters
                     ELSE {IF c.id = upd.cluster_id THEN ApplyUpdate(c, upd) ELSE c :
                           c \in clusters}
         IN ApplyUpdates(step, owned, Tail(updates))

PatchProposal(u, account_id, cluster_updates) ==
    LET found == FindProposal(db.proposals, u, account_id)
        owned == {c \in db.clusters : \E p \in found : c.proposal_id = p.id}
        after == [db EXCEPT !.clusters = ApplyUpdates(db.clusters, owned, cluster_updates)]
        raised == IF found = {} THEN FALSE ELSE ~ClusterCategoryFK(after.clusters)
    IN /\ db' = IF found = {} THEN db ELSE get_db(db, after, raised)
       /\ last' = [op |-> "patch", result |-> IF raised THEN "IntegrityError" ELSE "ok"]
       /\ UNCHANGED <<seq, sess>>

(***************************************************************************)
(* RuleService                                                             *)
(***************************************************************************)
\* the parameters create_rule_from_transaction declares, and the keywords its
\* callers pass
create_rule_from_transaction_params == {"user", "label_raw", "category_id", "custom_label"}

classify_transactions_keywords ==
    {"user", "label_raw", "category_id", "custom_label", "pattern_override"}

\* a call binds when every keyword is a declared parameter (else TypeError)
CallBinds(keywords, params) == keywords \subseteq params

\* lines 216-249; raised is MultipleResultsFound of scalar_one_or_none
create_rule_from_transaction(rules, id, u, label_raw, category_id, custom_label) ==
    LET existing == {r \in rules : r.user_id = u /\ Lower[r.pattern] = Lower[label_raw]}
    IN IF Cardinality(existing) > 1 THEN [raised |-> TRUE, rules |-> rules, created |-> FALSE]
       ELSE IF existing # {}
       THEN [raised |-> FALSE, created |-> FALSE,
             rules |-> {IF r \in existing
                        THEN [r EXCEPT !.category_id = category_id,
                                       !.custom_label = IF custom_label # "none"
                                                        THEN custom_label ELSE @,
                                       !.is_active = TRUE]
                        ELSE r : r \in rules}]
       ELSE [raised |-> FALSE, created |-> TRUE,
             rules |-> rules \cup {NewRule(id, u, label_raw, "contains", category_id,
                                           custom_label, DerivedRulePriority)}]

\* _get_user_rule: NotFoundError or ForbiddenError
get_user_rule(rules, rule_id, u) ==
    IF \A r \in rules : r.id # rule_id THEN "NotFoundError"
    ELSE IF \E r \in rules : r.id = rule_id /\ r.user_id # u THEN "ForbiddenError"
    ELSE "ok"

UpdateRule(u, rule_id, category_id, is_active) ==
    LET found == get_user_rule(db.rules, rule_id, u)
        result == IF found # "ok" THEN found
                  ELSE IF ~CategoryFK(category_id) THEN "IntegrityError"
                  ELSE "ok"
        after == [db EXCEPT !.rules = {IF r.id = rule_id
                                       THEN [r EXCEPT !.category_id = category_id,
                                                      !.is_active = is_active]
                                       ELSE r : r \in db.rules}]
    IN /\ db' = get_db(db, after, result # "ok")
       /\ last' = [op |-> "update_rule", result |-> result]
       /\ UNCHANGED <<seq, sess>>

DeleteRule(u, rule_id) ==
    LET result == get_user_rule(db.rules, rule_id, u)
        after == [db EXCEPT !.rules = {r \in db.rules : r.id # rule_id}]
    IN /\ db' = get_db(db, after, result # "ok")
       /\ last' = [op |-> "delete_rule", result |-> result]
       /\ UNCHANGED <<seq, sess>>

\* create_rule, lines 55-69: no lookup of an existing pattern
CreateRule(u, pattern, match_type, category_id, custom_label, priority) ==
    LET rule == NewRule(seq.rule, u, pattern, match_type, category_id, custom_label, priority)
        result == IF ~CategoryFK(category_id) THEN "IntegrityError" ELSE "ok"
    IN /\ seq.rule <= MaxRuleId
       /\ db' = get_db(db, [db EXCEPT !.rules = @ \cup {rule}], result # "ok")
       /\ seq' = IF result # "ok" THEN seq ELSE [seq EXCEPT !.rule = @ + 1]
       /\ last' = [op |-> "create_rule", result |-> result]
       /\ UNCHANGED sess

\* create_rule_from_transaction called with the parameters it declares
CreateRuleFromTransaction(u, label_raw, category_id, custom_label) ==
    \E r \in {create_rule_from_transaction(db.rules, seq.rule, u, label_raw, category_id, custom_label)} :
       /\ r.created => seq.rule <= MaxRuleId
       /\ db' = get_db(db, [db EXCEPT !.rules = r.rules], r.raised)
       /\ seq' = IF r.created THEN [seq EXCEPT !.rule = @ + 1] ELSE seq
       /\ last' = [op |-> "create_rule_from_transaction",
                   result |-> IF r.raised THEN "MultipleResultsFound" ELSE "ok"]
       /\ UNCHANGED sess

IsPrefix(p, s) == Len(p) <= Len(s) /\ SubSeq(s, 1, Len(p)) = p

IsInfix(p, s) == \E i \in 0..(Len(s) - Len(p)) : SubSeq(s, i + 1, i + Len(p)) = p

\* _matches, lines 253-264
matches(label, pattern, match_type) ==
    LET label_lower == Chars[Lower[label]]
        pattern_lower == Chars[Lower[pattern]]
    IN IF match_type = "exact" THEN label_lower = pattern_lower
       ELSE IF match_type = "starts_with" THEN IsPrefix(pattern_lower, label_lower)
       ELSE IsInfix(pattern_lower, label_lower)

\* lines 126-132: the active rules of the user by priority descending, in each
\* order the database may return rules of equal priority
ActiveRulesByPriority(rules, u) ==
    LET active == {r \in rules : r.user_id = u /\ r.is_active}
        n == Cardinality(active)
    IN {s \in [1..n -> active] :
           /\ \A i, j \in 1..n : i # j => s[i] # s[j]
           /\ \A i, j \in 1..n : i < j => s[i].priority >= s[j].priority}

FirstMatching_Last(rules, label) ==
    LET hits == {i \in DOMAIN rules : matches(label, rules[i].pattern, rules[i].match_type)}
    IN IF hits = {} THEN 0 ELSE Max(hits)

\* lines 153-161: the index of the first rule that matches, 0 when none does
FirstMatching(rules, label) ==
    LET hits == {i \in DOMAIN rules : matches(label, rules[i].pattern, rules[i].match_type)}
    IN IF hits = {} THEN 0 ELSE Min(hits)

ApplyRulesScope_Everything(txn, u, account_id) == TxnIds

\* lines 138-149: the uncategorized, non-deleted transactions of the user,
\* of the account when one is given (0: none given)
ApplyRulesScope(txn, u, account_id) ==
    {t \in TxnIds : /\ InScope(u, account_id, t)
                    /\ txn[t].category_id = 0
                    /\ ~txn[t].deleted}

\* lines 134-161 with the rules in the order the query returned them
apply_rules(txn, u, account_id, rules) ==
    LET transactions == ApplyRulesScope(txn, u, account_id)
    IN IF rules = << >> THEN txn
       ELSE [t \in TxnIds |->
               LET i == FirstMatching(rules, LabelRaw[t])
               IN IF t \in transactions /\ i # 0
                  THEN [txn[t] EXCEPT !.category_id = rules[i].category_id,
                                      !.ai_confidence = "rule",
                                      !.label_clean = IF rules[i].custom_label # "none"
                                                      THEN rules[i].custom_label ELSE @]
                  ELSE txn[t]]

ApplyRules(u, account_id) ==
    \E rules \in ActiveRulesByPriority(db.rules, u) :
       /\ db' = get_db(db, [db EXCEPT !.txn = apply_rules(@, u, account_id, rules)], FALSE)
       /\ last' = [op |-> "apply_rules", result |-> "ok"]
       /\ UNCHANGED <<seq, sess>>

(***************************************************************************)
(* EmbeddingService.classify_transactions                                  *)
(***************************************************************************)
\* lines 787-796: the caller's non-deleted transactions among the ids
OwnTransactions(txn, u, transaction_ids) ==
    {t \in SeqToSet(transaction_ids) \cap TxnIds :
        TxnAccount[t] \in UserAccounts(u) /\ ~txn[t].deleted}

\* lines 798-803
AssignCategory(txn, transactions, category_id, custom_label) ==
    [t \in TxnIds |->
        IF t \in transactions
        THEN [txn[t] EXCEPT !.category_id = category_id, !.ai_confidence = "user",
                            !.label_clean = IF custom_label # "none" THEN custom_label ELSE @]
        ELSE txn[t]]

classify_transactions(d, s, transaction_ids, category_id, u, custom_label, create_rule, rule_pattern) ==
    LET transactions == OwnTransactions(d.txn, u, transaction_ids)
        pattern == IF rule_pattern # "none" THEN rule_pattern
                   ELSE LabelRaw[Min(transactions)]
        wants_rule == create_rule /\ transactions # {}
        binds == CallBinds(classify_transactions_keywords,
                           create_rule_from_transaction_params)
        rule == create_rule_from_transaction(d.rules, s.rule, u, pattern, category_id,
                                             custom_label)
        written == [d EXCEPT !.txn = AssignCategory(@, transactions, category_id,
                                                    custom_label)]
    IN IF category_id \notin Categories
       THEN [result |-> "ok", db |-> d, seq |-> s, classified_count |-> 0,
             rule_created |-> FALSE]
       ELSE IF ~wants_rule
       THEN [result |-> "ok", db |-> written, seq |-> s,
             classified_count |-> Cardinality(transactions), rule_created |-> FALSE]
       ELSE IF ~binds
       THEN [result |-> "TypeError", db |-> written, seq |-> s, classified_count |-> 0,
             rule_created |-> FALSE]
       ELSE IF rule.raised
       THEN [result |-> "MultipleResultsFound", db |-> written, seq |-> s,
             classified_count |-> 0, rule_created |-> FALSE]
       ELSE [result |-> "ok", db |-> [written EXCEPT !.rules = rule.rules],
             seq |-> [s EXCEPT !.rule = IF rule.created THEN @ + 1 ELSE @],
             classified_count |-> Cardinality(transactions), rule_created |-> TRUE]

(***************************************************************************)
(* ClusterService.create_cluster                                           *)
(***************************************************************************)
create_cluster_Dropped(tclusters, id, u, transaction_ids, category_id, source, rule_pattern) ==
    tclusters

create_cluster(tclusters, id, u, transaction_ids, category_id, source, rule_pattern) ==
    tclusters \cup {[id |-> id, user_id |-> u, transaction_ids |-> transaction_ids,
                     category_id |-> category_id, source |-> source,
                     rule_pattern |-> rule_pattern]}

(***************************************************************************)
(* ClassificationService.apply_cluster                                     *)
(***************************************************************************)
UserCluster_AnyUser(d, u, cluster_id) == {c \in d.clusters : c.id = cluster_id}

\* lines 228-236 and 293-302: the cluster, when it is in a proposal of the caller
UserCluster(d, u, cluster_id) ==
    {c \in d.clusters : /\ c.id = cluster_id
                        /\ \E p \in d.proposals : p.id = c.proposal_id /\ p.user_id = u}

\* lines 250-256
AcceptCluster(c, category_id, rule_pattern, custom_label) ==
    [c EXCEPT !.status = "accepted", !.override_category_id = category_id,
              !.rule_pattern = IF rule_pattern # "none" THEN rule_pattern ELSE @,
              !.custom_label = IF custom_label # "none" THEN custom_label ELSE @]

apply_cluster(d, s, u, cluster_id, transaction_ids, category_id, create_rule, rule_pattern, custom_label) ==
    LET cluster == UserCluster(d, u, cluster_id)
        cls == classify_transactions(d, s, transaction_ids, category_id, u, custom_label,
                                     create_rule, rule_pattern)
        accepted == [cls.db EXCEPT !.clusters =
                        {IF c \in cluster
                         THEN AcceptCluster(c, category_id, rule_pattern, custom_label)
                         ELSE c : c \in cls.db.clusters}]
        minted == [accepted EXCEPT !.tclusters =
                      create_cluster(@, cls.seq.tcluster, u, transaction_ids, category_id,
                                     "classification", rule_pattern)]
    IN IF cluster = {} THEN [result |-> "HTTP404", db |-> d, seq |-> s]
       ELSE IF cls.result # "ok" THEN [result |-> cls.result, db |-> cls.db, seq |-> s]
       ELSE IF ~ClusterCategoryFK(accepted.clusters)
       THEN [result |-> "IntegrityError", db |-> accepted, seq |-> s]
       ELSE IF ~TClusterCategoryFK(minted.tclusters)
       THEN [result |-> "IntegrityError", db |-> minted, seq |-> s]
       ELSE [result |-> "ok", db |-> minted,
             seq |-> [cls.seq EXCEPT !.tcluster = @ + 1]]

ApplyCluster(u, cluster_id, transaction_ids, category_id, create_rule, rule_pattern, custom_label) ==
    \E r \in {apply_cluster(db, seq, u, cluster_id, transaction_ids, category_id,
                            create_rule, rule_pattern, custom_label)} :
       /\ IF r.result # "ok" THEN TRUE ELSE Cardinality(r.db.tclusters) <= MaxTClusters
       /\ db' = get_db(db, r.db, r.result # "ok")
       /\ seq' = IF r.result # "ok" THEN seq ELSE r.seq
       /\ last' = [op |-> "apply", result |-> r.result]
       /\ UNCHANGED sess

(***************************************************************************)
(* LLMService._parse_subclusters_response on the decoded reply: a list of  *)
(* "ids" lists, << >> when the text holds no usable object.                *)
(***************************************************************************)
FilterIds(ids_raw, valid_ids) == SelectSeq(ids_raw, LAMBDA x : x \in valid_ids)

RECURSIVE KeepValid(_, _)
KeepValid(subclusters_raw, valid_ids) ==
    IF subclusters_raw = << >> THEN << >>
    ELSE LET ids == FilterIds(Head(subclusters_raw), valid_ids)
         IN (IF ids = << >> THEN << >> ELSE <<ids>>)
            \o KeepValid(Tail(subclusters_raw), valid_ids)

parse_subclusters_response(subclusters_raw, valid_ids) ==
    LET result == KeepValid(subclusters_raw, valid_ids)
        used_ids == UNION {SeqToSet(result[i]) : i \in DOMAIN result}
        orphan == valid_ids \ used_ids
    IN IF result = << >> THEN << >>
       ELSE [result EXCEPT ![1] = @ \o SetToSeq(orphan)]

\* the replies the language model gives for a cluster of these ids
Replies(ids) ==
    {<< >>,
     <<<<ids[1]>>, Tail(ids)>>,
     <<<<ids[1], ids[2]>>, <<ids[2]>>>>}

(***************************************************************************)
(* EmbeddingService.cluster_transaction_subset                             *)
(***************************************************************************)
cluster_transaction_subset(txn, u, transaction_ids, distance_threshold, min_cluster_size) ==
    LET transactions == {t \in SeqToSet(transaction_ids) \cap TxnIds :
                            /\ TxnAccount[t] \in UserAccounts(u)
                            /\ ~txn[t].deleted
                            /\ txn[t].category_id = 0
                            /\ txn[t].embedding}
        groups == fit_predict[transactions, distance_threshold]
    IN IF Cardinality(transactions) < 2 THEN << >>
       ELSE cluster_sort({g \in groups : Cardinality(g) >= min_cluster_size})

(***************************************************************************)
(* ClassificationService.recluster                                         *)
(***************************************************************************)
llm_subclusters_One(u, txn_ids, reply) ==
    LET txns_from_db == {t \in SeqToSet(txn_ids) \cap TxnIds :
                            TxnAccount[t] \in UserAccounts(u)}
        sub_clusters == parse_subclusters_response(reply, txns_from_db)
        enriched == SelectSeq(sub_clusters,
                              LAMBDA ids : SeqToSet(ids) \cap txns_from_db # {})
    IN IF txns_from_db = {} THEN << >>
       ELSE IF Len(enriched) >= 1 THEN enriched ELSE << >>

\* lines 321-393: the model's sub-groups, kept when at least two hold a
\* transaction of the caller
llm_subclusters(u, txn_ids, reply) ==
    LET txns_from_db == {t \in SeqToSet(txn_ids) \cap TxnIds :
                            TxnAccount[t] \in UserAccounts(u)}
        sub_clusters == parse_subclusters_response(reply, txns_from_db)
        enriched == SelectSeq(sub_clusters,
                              LAMBDA ids : SeqToSet(ids) \cap txns_from_db # {})
    IN IF txns_from_db = {} THEN << >>
       ELSE IF Len(enriched) >= 2 THEN enriched ELSE << >>

\* a sub-group of the language model: its label is the model's, "Sous-groupe"
\* when the reply gives none
Fragment(c) ==
    IF c.suggestion_source = "llm_fragment"
    THEN [c EXCEPT !.representative_label = "Sous-groupe"] ELSE c

ReplaceCluster_FromZero(d, s, cluster, sub_clusters, suggestions) ==
    LET n == Len(sub_clusters)
    IN [db |-> [d EXCEPT !.clusters =
                  (@ \ {cluster})
                  \cup {Fragment(NewCluster(s.cluster + i - 1, cluster.proposal_id, i - 1,
                                            sub_clusters[i], suggestions[i])) : i \in 1..n}],
        seq |-> [s EXCEPT !.cluster = @ + n]]

\* lines 410-431: delete the cluster, insert the sub-clusters after the others
ReplaceCluster(d, s, cluster, sub_clusters, suggestions) ==
    LET others == {c \in d.clusters : c.proposal_id = cluster.proposal_id /\ c.id # cluster.id}
        max_index == IF others = {} THEN -1 ELSE Max({c.cluster_index : c \in others})
        n == Len(sub_clusters)
    IN [db |-> [d EXCEPT !.clusters =
                  (@ \ {cluster})
                  \cup {Fragment(NewCluster(s.cluster + i - 1, cluster.proposal_id,
                                            max_index + i, sub_clusters[i],
                                            suggestions[i])) : i \in 1..n}],
        seq |-> [s EXCEPT !.cluster = @ + n]]

TooSmallToSplit_Empty(txn_ids) == Len(txn_ids) < 1

\* lines 310-311
TooSmallToSplit(txn_ids) == Len(txn_ids) < 2

\* llm is "off" (not requested), "down" (unavailable) or "up" with a reply
recluster(d, s, u, cluster_id, distance_threshold, llm, reply) ==
    LET found == UserCluster(d, u, cluster_id)
        cluster == CHOOSE c \in found : TRUE
        proposal == CHOOSE p \in d.proposals : p.id = cluster.proposal_id
        txn_ids == cluster.transaction_ids
        from_llm == IF llm = "up" THEN llm_subclusters(u, txn_ids, reply) ELSE << >>
        threshold == SplitThreshold(distance_threshold, proposal.distance_threshold)
        from_embedding == cluster_transaction_subset(d.txn, u, txn_ids, threshold, 1)
        method == IF from_llm # << >> THEN "llm" ELSE "embedding"
        sub_clusters == IF from_llm # << >> THEN from_llm ELSE from_embedding
        suggestions == [i \in DOMAIN sub_clusters |->
                          IF method = "llm"
                          THEN [category_id |-> 0, confidence |-> "medium",
                                source |-> "llm_fragment"]
                          ELSE cluster_suggestion(d.txn, u, proposal.account_id,
                                                  sub_clusters[i], LlmOff)]
        replaced == ReplaceCluster(d, s, cluster, sub_clusters, suggestions)
    IN IF found = {} THEN [result |-> "HTTP404", db |-> d, seq |-> s, method |-> "none"]
       ELSE IF TooSmallToSplit(txn_ids)
       THEN [result |-> "HTTP400", db |-> d, seq |-> s, method |-> "none"]
       ELSE IF sub_clusters = << >>
       THEN [result |-> "ok", db |-> d, seq |-> s, method |-> method]
       ELSE [result |-> "ok", db |-> replaced.db, seq |-> replaced.seq, method |-> method]

Recluster(u, cluster_id, distance_threshold, llm, reply) ==
    \E r \in {recluster(db, seq, u, cluster_id, distance_threshold, llm, reply)} :
       /\ IF r.result # "ok" THEN TRUE ELSE r.seq.cluster <= MaxClusterId + 1
       /\ db' = get_db(db, r.db, r.result # "ok")
       /\ seq' = IF r.result # "ok" THEN seq ELSE r.seq
       /\ last' = [op |-> "recluster", result |-> r.result]
       /\ UNCHANGED sess

(***************************************************************************)
(* The requests.                                                           *)
(***************************************************************************)
\* the clusters of the proposals of a user, and the others
OwnClusters(u) ==
    {c \in db.clusters : \E p \in db.proposals : p.id = c.proposal_id /\ p.user_id = u}

OtherClusters(u) == db.clusters \ OwnClusters(u)

\* the apply requests <<cluster, ids, category, create_rule>> of a user: on a
\* cluster of the other user, the cluster's ids; user 1 also sends, on a
\* cluster of its own, the cluster's ids with each category and each choice
\* of create_rule, and a list naming a transaction of each user
ApplyRequests(u) ==
    {<<c.id, c.transaction_ids, 1, FALSE>> : c \in OtherClusters(u)}
    \cup (IF u = Bystander THEN {}
          ELSE {<<c.id, c.transaction_ids, cat, create_rule>> :
                   c \in OwnClusters(u), cat \in {1, BadCategory}, create_rule \in BOOLEAN}
               \cup {<<c.id, <<1, 7>>, 1, FALSE>> : c \in OwnClusters(u)})

\* the split requests <<cluster, distance_threshold>> without the language model
SplitRequests(u) ==
    {<<c.id, 0>> : c \in OtherClusters(u)}
    \cup (IF u = Bystander THEN {}
          ELSE {<<c.id, th>> : c \in OwnClusters(u), th \in CallerSplitThresholds})

Update(cluster_id, key, status, override_category_id, excluded_ids) ==
    [NoUpdate EXCEPT !.cluster_id = cluster_id, !.keys = {key}, !.status = status,
                     !.override_category_id = override_category_id,
                     !.excluded_ids = excluded_ids]

Statuses == {"pending", "skipped"}

UnknownClusterId == MaxClusterId + 10

\* the patch requests <<account, updates>> of a user, on its own account: user
\* 1 sets a status on a cluster of its own, alone or after an update that names
\* a cluster that does not exist; the bystander names a cluster of user 1
PatchRequests(u) ==
    IF u = Bystander
    THEN {<<AccountOwner[u], <<Update(c.id, "status", "skipped", 0, << >>)>>>> :
             c \in OtherClusters(u)}
    ELSE {<<AccountOwner[u], <<Update(c.id, "status", st, 0, << >>)>>>> :
             c \in OwnClusters(u), st \in Statuses}
         \cup {<<AccountOwner[u], <<Update(UnknownClusterId, "status", "skipped", 0, << >>),
                                    Update(c.id, "status", "skipped", 0, << >>)>>>> :
                  c \in OwnClusters(u)}

Next ==
    \/ \E u \in Users, th \in Thresholds : Recalculate(u, 1, th, LlmOff)
    \/ \E u \in Users : \E req \in PatchRequests(u) : PatchProposal(u, req[1], req[2])
    \/ \E u \in Users : \E req \in ApplyRequests(u) :
          ApplyCluster(u, req[1], req[2], req[3], req[4], "none", "none")
    \/ \E u \in Users : \E req \in SplitRequests(u) :
          Recluster(u, req[1], req[2], "off", << >>)
    \/ \E c \in OwnClusters(1) :
          \E reply \in (IF Len(c.transaction_ids) < 2 THEN {<< >>}
                        ELSE Replies(c.transaction_ids)) :
             Recluster(1, c.id, 0, "up", reply)
    \/ \E u \in Users : UpdateRule(u, 1, 2, FALSE)
    \/ \E u \in Users : DeleteRule(u, 1)

Spec == Init /\ [][Next]_vars

(***************************************************************************)
(* Two recalculate requests of user 1 on account 1, each in its own         *)
(* session (READ COMMITTED): a session reads what is committed and its own  *)
(* writes, holds the rows of the transactions it updated until it commits,  *)
(* and commits when the handler returns.                                    *)
(***************************************************************************)
\* lines 80-96: the session has transactions of the account to update
NeedsTransactionWrite(txn, u, account_id) ==
    compute_missing_embeddings(ParseLabels(txn, account_id), u, account_id) # txn

\* lines 74-112: the reads of the handler, its updates of transactions flushed
\* (and their rows locked) but not committed; a session that has to update a
\* row the other holds waits for the other's commit
RcRead(s, distance_threshold) ==
    LET o == CHOOSE x \in Sessions : x # s
        needs == NeedsTransactionWrite(db.txn, 1, 1)
        txn == compute_missing_embeddings(ParseLabels(db.txn, 1), 1, 1)
        data == get_clusters(txn, 1, 1, embedding_min_cluster_size, distance_threshold, LlmOff)
        read == SelectProposal(db, 1, 1)
    IN /\ sess[s].pc = "idle"
       /\ ~(needs /\ sess[o].locks)
       /\ seq.cluster + Len(data.clusters) + Len(sess[o].data) <= MaxConcClusterId + 1
       /\ sess' = [sess EXCEPT ![s] =
                      [pc |-> "read", distance_threshold |-> distance_threshold,
                       locks |-> needs, txn |-> txn, data |-> data.clusters,
                       existing |-> read.existing, old |-> read.old, result |-> "none"]]
       /\ UNCHANGED <<db, seq, last>>

\* lines 113-163 and the commit: the deletes, the update or insert of the
\* proposal and the inserts of the clusters reach the committed state; the
\* insert of a second row for the pair violates the unique constraint
RcWrite(s) ==
    LET me == sess[s]
        counts == get_clusters(me.txn, 1, 1, embedding_min_cluster_size,
                               me.distance_threshold, LlmOff)
        r == WriteProposal([db EXCEPT !.txn = IF me.locks THEN me.txn ELSE @], seq,
                           me.existing, me.old, 1, 1, me.distance_threshold,
                           [counts EXCEPT !.clusters = me.data])
        result == IF UniqueUserAccount(r.db.proposals) THEN "ok" ELSE "IntegrityError"
    IN /\ me.pc = "read"
       /\ db' = get_db(db, r.db, result # "ok")
       /\ seq' = IF result # "ok" THEN seq ELSE r.seq
       /\ last' = [op |-> "recalculate", result |-> result]
       /\ sess' = [sess EXCEPT ![s] = [IdleSession EXCEPT !.result = result]]

InitConc ==
    /\ \E ready \in BOOLEAN : db = InitialDb(ready)
    /\ seq = [proposal |-> 2, cluster |-> 2, rule |-> 2, tcluster |-> 1]
    /\ last = [op |-> "init", result |-> "ok"]
    /\ sess = Idle

NextConc ==
    \/ \E s \in Sessions, th \in Thresholds : RcRead(s, th)
    \/ \E s \in Sessions : RcWrite(s)

SpecConc == InitConc /\ [][NextConc]_vars

(***************************************************************************)
(* The rule engine: rules are created by hand or derived from a            *)
(* transaction, switched on and off, and applied to the uncategorized      *)
(* transactions.                                                           *)
(***************************************************************************)
\* the rules <<pattern, match_type, category_id, custom_label, priority>> a
\* user writes
RuleInputs ==
    {<<"AMAZON", "contains", 1, "none", 5>>,
     <<"amazon", "contains", 2, "none", 5>>,
     <<"AMA", "starts_with", 2, "Achats", 10>>,
     <<"ZON", "exact", 2, "none", 20>>,
     <<"ZON", "contains", 1, "none", 0>>}

\* the calls <<label_raw, category_id, custom_label>> of create_rule_from_transaction
DerivedRuleInputs == {<<"AMAZON", 2, "none">>, <<"LOYER", 1, "Loyer">>}

InitRules ==
    /\ \E categorized \in {{}, {3, 9}}, deleted \in {{}, {2}} :
          db = [InitialDb(TRUE) EXCEPT
                  !.txn = [t \in TxnIds |->
                             [@[t] EXCEPT !.category_id = IF t \in categorized THEN 2 ELSE 0,
                                          !.ai_confidence = IF t \in categorized THEN "user"
                                                            ELSE "none",
                                          !.deleted = t \in deleted]]]
    /\ seq = [proposal |-> 2, cluster |-> 2, rule |-> 2, tcluster |-> 1]
    /\ last = [op |-> "init", result |-> "ok"]
    /\ sess = Idle

NextRules ==
    \/ \E in \in RuleInputs : CreateRule(1, in[1], in[2], in[3], in[4], in[5])
    \/ \E in \in DerivedRuleInputs : CreateRuleFromTransaction(1, in[1], in[2], in[3])
    \/ \E u \in Users : \E r \in db.rules : UpdateRule(u, r.id, r.category_id, ~r.is_active)
    \/ \E u \in Users, account_id \in {0} \cup Accounts : ApplyRules(u, account_id)

SpecRules == InitRules /\ [][NextRules]_vars

(***************************************************************************)
(* Recalculate with the language model enabled (settings.llm_enabled): the *)
(* outcome of the model is an input of each call.                          *)
(***************************************************************************)
NextLlm ==
    \/ \E th \in Thresholds, llm \in LlmOutcomes : Recalculate(1, 1, th, llm)
    \/ \E req \in ApplyRequests(1) :
          ApplyCluster(1, req[1], req[2], req[3], req[4], "none", "none")

SpecLlm == Init /\ [][NextLlm]_vars

(***************************************************************************)
(* The embeddings endpoints: compute the missing vectors, parse the labels *)
(* (which resets the vector of each transaction it parses).                *)
(***************************************************************************)
\* POST /transactions/compute-embeddings
ComputeEmbeddings(u, account_id) ==
    LET after == compute_missing_embeddings(db.txn, u, account_id)
        computed == Cardinality({t \in TxnIds : after[t] # db.txn[t]})
    IN /\ db' = get_db(db, [db EXCEPT !.txn = after], FALSE)
       /\ last' = [op |-> "compute_embeddings", result |-> "ok", computed |-> computed,
                   user |-> u, account_id |-> account_id]
       /\ UNCHANGED <<seq, sess>>

\* POST /transactions/parse-labels
ParseLabelsEndpoint(u, account_id, force) ==
    LET after == [t \in TxnIds |->
                    IF /\ InScope(u, account_id, t)
                       /\ ~db.txn[t].deleted
                       /\ (force \/ ~db.txn[t].parsed)
                    THEN [db.txn[t] EXCEPT !.parsed = TRUE, !.embedding = FALSE]
                    ELSE db.txn[t]]
    IN /\ db' = get_db(db, [db EXCEPT !.txn = after], FALSE)
       /\ last' = [op |-> "parse_labels", result |-> "ok"]
       /\ UNCHANGED <<seq, sess>>

InitEmbed ==
    /\ \E ready \in BOOLEAN, deleted \in SUBSET {2, 8} :
          db = [InitialDb(ready) EXCEPT
                  !.txn = [t \in TxnIds |-> [@[t] EXCEPT !.deleted = t \in deleted]]]
    /\ seq = [proposal |-> 2, cluster |-> 2, rule |-> 2, tcluster |-> 1]
    /\ last = [op |-> "init", result |-> "ok"]
    /\ sess = Idle

NextEmbed ==
    \/ \E u \in Users, account_id \in {0} \cup Accounts : ComputeEmbeddings(u, account_id)
    \/ \E u \in Users, account_id \in {0} \cup Accounts, force \in BOOLEAN :
          ParseLabelsEndpoint(u, account_id, force)
    \/ \E th \in Thresholds : Recalculate(1, 1, th, LlmOff)

SpecEmbed == InitEmbed /\ [][NextEmbed]_vars

(***************************************************************************)
(* The suggestion of a category, for one transaction and for the clusters  *)
(* of a recalculate, with some transactions already categorized.           *)
(***************************************************************************)
SuggestTransaction(u, t, llm) ==
    /\ last' = [op |-> "suggest", result |-> "ok", user |-> u, transaction |-> t, llm |-> llm,
                suggestion |-> suggest_category_for_transaction(db.txn, u, t, llm)]
    /\ UNCHANGED <<db, seq, sess>>

\* the transactions categorized by hand before, each with its category
InitSuggest ==
    /\ \E categorized \in SUBSET {2, 5} :
          db = [InitialDb(TRUE) EXCEPT
                  !.txn = [t \in TxnIds |->
                             [@[t] EXCEPT !.category_id = IF t \in categorized
                                                          THEN (IF t = 2 THEN 1 ELSE 2)
                                                          ELSE 0,
                                          !.ai_confidence = IF t \in categorized THEN "user"
                                                            ELSE "none"]]]
    /\ seq = [proposal |-> 2, cluster |-> 2, rule |-> 2, tcluster |-> 1]
    /\ last = [op |-> "init", result |-> "ok"]
    /\ sess = Idle

NextSuggest ==
    \/ \E t \in TxnIds, llm \in LlmOutcomes : SuggestTransaction(AccountOwner[TxnAccount[t]], t, llm)
    \/ \E th \in Thresholds, llm \in LlmOutcomes : Recalculate(1, 1, th, llm)

SpecSuggest == InitSuggest /\ [][NextSuggest]_vars

(***************************************************************************)
(* LLMService.suggest_category on a response text.  A text is described by *)
(* what json.loads makes of it: nothing ("garbage"), a list ("array",      *)
(* "empty_array") or an object with its fields, alone or wrapped in prose; *)
(* "none" is a call that returned no text.  A field is absent, null or a   *)
(* value with its JSON type.                                               *)
(***************************************************************************)
Field(type, value) == [type |-> type, value |-> value]

CategoryIdFields ==
    {Field("absent", 0), Field("null", 0), Field("int", 1), Field("int", BadCategory),
     Field("float", 1), Field("bool", 1), Field("str", 1), Field("list", 1)}

CategoryNameFields ==
    {Field("absent", ""), Field("null", ""), Field("int", ""), Field("str", "Courses"),
     Field("str", "courses"), Field("str", "Inconnu")}

ConfidenceFields == {Field("absent", ""), Field("str", "high"), Field("str", "bogus")}

NoFields == [category_id |-> Field("absent", 0), category_name |-> Field("absent", ""), confidence |-> Field("absent", "")]

Responses ==
    {[kind |-> k, wrapped |-> FALSE, fields |-> NoFields] : k \in {"none", "garbage"}}
    \cup {[kind |-> k, wrapped |-> w, fields |-> NoFields] :
             k \in {"array", "empty_array"}, w \in BOOLEAN}
    \cup {[kind |-> "object", wrapped |-> w,
           fields |-> [category_id |-> i, category_name |-> n, confidence |-> c]] :
             w \in BOOLEAN, i \in CategoryIdFields, n \in CategoryNameFields,
             c \in ConfidenceFields}

\* _try_parse_json on the whole text: None when it is not JSON
try_parse_json(response) ==
    IF response.kind = "garbage" \/ response.wrapped THEN "None" ELSE response.kind

\* re.search(r"\{[^{}]+\}", text) and the parse of what it found
search_object(response) == IF response.kind = "object" THEN "object" ELSE "None"

InValidIds_Unchecked(cat_id, categories) == cat_id.type \in {"int", "float", "bool"}

\* cat_id in valid_ids, for a hashable cat_id: numbers compare by value
InValidIds(cat_id, categories) ==
    cat_id.type \in {"int", "float", "bool"} /\ cat_id.value \in categories

\* _parse_response, lines 474-531; raised is the exception it lets escape
parse_response(response, categories) ==
    LET first == try_parse_json(response)
        parsed == IF first \in {"None", "empty_array"} THEN search_object(response) ELSE first
        cat_id == response.fields.category_id
        cat_name == IF response.fields.category_name.type = "absent" THEN Field("str", "")
                    ELSE response.fields.category_name
        matched == {c \in categories : Lower[CategoryName[c]] = Lower[cat_name.value]}
        confidence == IF response.fields.confidence.value \in {"high", "medium", "low"}
                      THEN response.fields.confidence.value ELSE "medium"
        Found(id) == [raised |-> FALSE,
                      suggestion |-> [category_id |-> id, confidence |-> confidence,
                                      source |-> "llm"]]
        Nothing == [raised |-> FALSE, suggestion |-> NoSuggestion]
        Raised == [raised |-> TRUE, suggestion |-> NoSuggestion]
    IN IF parsed = "None" THEN Nothing
       ELSE IF parsed # "object" THEN Raised
       ELSE IF cat_id.type \in {"absent", "null"} THEN Nothing
       ELSE IF cat_id.type = "list" THEN Raised
       ELSE IF InValidIds(cat_id, categories) THEN Found(cat_id.value)
       ELSE IF categories = {} THEN Nothing
       ELSE IF cat_name.type # "str" THEN Raised
       ELSE IF matched # {} THEN Found(Min(matched))
       ELSE Nothing

\* suggest_category_with_raw, lines 68-91: no text or an exception is no
\* suggestion
suggest_category(response, categories) ==
    LET parsed == parse_response(response, categories)
    IN IF response.kind = "none" THEN [raised |-> FALSE, suggestion |-> NoSuggestion]
       ELSE IF parsed.raised THEN [raised |-> FALSE, suggestion |-> NoSuggestion]
       ELSE parsed

SuggestCategory(response) ==
    \E r \in {suggest_category(response, Categories)} :
       /\ last' = [op |-> "suggest_category", response |-> response,
                   result |-> IF r.raised THEN "raised" ELSE "ok",
                   suggestion |-> r.suggestion]
       /\ UNCHANGED <<db, seq, sess>>

NextParse == \E response \in Responses : SuggestCategory(response)

SpecParse == Init /\ [][NextParse]_vars

(***************************************************************************)
(* Recalculate and recluster with the language-model service: what the     *)
(* service answers to GET /api/tags and to POST /api/generate is an input  *)
(* of each call.                                                           *)
(***************************************************************************)
\* the answers to GET /api/tags: the model listed, not listed, a status that
\* is not 200, or the exception httpx or resp.json() raises
TagsOutcomes ==
    {"model", "no_model", "status", "ConnectError", "TimeoutException", "ReadError",
     "JSONDecodeError"}

\* the answers to POST /api/generate
GenerateOutcomes ==
    {[outcome |-> "response", category_id |-> c] : c \in {0} \cup Categories}
    \cup {[outcome |-> o, category_id |-> 0] :
            o \in {"status", "ConnectError", "TimeoutException", "ReadError",
                   "JSONDecodeError"}}

\* LLMService.is_available, lines 30-45: the except clause names two exceptions
is_available(tags) ==
    IF tags = "model" THEN "True"
    ELSE IF tags \in {"no_model", "status", "ConnectError", "TimeoutException"} THEN "False"
    ELSE "raised"

\* LLMService._call_ollama, lines 435-472
call_ollama(generate) ==
    IF generate.outcome = "response" THEN "text"
    ELSE IF generate.outcome \in {"status", "ConnectError", "TimeoutException"} THEN "None"
    ELSE "raised"

\* suggest_category_with_raw and suggest_subclusters: no text or any exception
\* of the call is no answer
Answered(generate) == call_ollama(generate) = "text"

\* what get_clusters knows of the language model after is_available
LlmOf(tags, generate) ==
    [available |-> is_available(tags) = "True",
     category_id |-> IF Answered(generate) THEN generate.category_id ELSE 0]

\* get_clusters reaches the availability check when there is enough to cluster
ChecksAvailability(txn, u, account_id) ==
    Cardinality({t \in TxnIds : /\ InScope(u, account_id, t)
                                /\ ~txn[t].deleted
                                /\ txn[t].category_id = 0
                                /\ txn[t].embedding}) >= embedding_min_cluster_size

RecalculateWithService(u, account_id, distance_threshold, tags, generate) ==
    \E r \in {RecalculateResult(db, seq, u, account_id, distance_threshold, LlmOf(tags, generate))} :
    LET result == IF AccountOwner[account_id] # u THEN "ValueError"
                  ELSE IF /\ ChecksAvailability(r.db.txn, u, account_id)
                          /\ is_available(tags) = "raised" THEN tags
                  ELSE IF ~UniqueUserAccount(r.db.proposals) THEN "IntegrityError"
                  ELSE "ok"
    IN /\ IF result # "ok" THEN TRUE ELSE r.seq.cluster <= MaxClusterId + 1
       /\ db' = get_db(db, r.db, result # "ok")
       /\ seq' = IF result # "ok" THEN seq ELSE r.seq
       /\ last' = [op |-> "recalculate", result |-> result, tags |-> tags,
                   generate |-> generate]
       /\ UNCHANGED sess

\* recluster, lines 317-320: the availability check follows the 404 and 400
\* answers, when the caller asked for the language model
ReclusterWithService(u, cluster_id, distance_threshold, use_llm, tags, generate, reply) ==
    \E r \in {recluster(db, seq, u, cluster_id, distance_threshold,
                        IF ~use_llm THEN "off"
                        ELSE IF is_available(tags) = "True" /\ Answered(generate)
                        THEN "up" ELSE "down", reply)} :
    LET result == IF use_llm /\ r.result = "ok" /\ is_available(tags) = "raised" THEN tags
                  ELSE r.result
    IN /\ IF result # "ok" THEN TRUE ELSE r.seq.cluster <= MaxClusterId + 1
       /\ db' = get_db(db, r.db, result # "ok")
       /\ seq' = IF result # "ok" THEN seq ELSE r.seq
       /\ last' = [op |-> "recluster", result |-> result, tags |-> tags,
                   generate |-> generate, use_llm |-> use_llm, cluster_id |-> cluster_id,
                   distance_threshold |-> distance_threshold, reply |-> reply,
                   method |-> IF result = "ok" THEN r.method ELSE "none"]
       /\ UNCHANGED sess

\* the answers of the service during one call: the generate call is made
\* only when the model is listed
ServiceOutcomes ==
    {<<tags, [outcome |-> "status", category_id |-> 0]>> : tags \in TagsOutcomes \ {"model"}}
    \cup {<<"model", generate>> : generate \in GenerateOutcomes}

\* the replies of the language model to a split: those of Replies, or one
\* group with every id
ServiceReplies(ids) == Replies(ids) \cup {<<ids>>}

\* the split requests <<cluster, distance_threshold, use_llm, tags, generate, reply>>
\* of user 1 on its clusters
ServiceSplitRequests ==
    {<<c.id, th, FALSE, "no_model", [outcome |-> "status", category_id |-> 0], << >>>> :
        c \in OwnClusters(1), th \in CallerSplitThresholds}
    \cup {<<c.id, 0, TRUE, o[1], o[2], << >>>> : c \in OwnClusters(1), o \in ServiceOutcomes}
    \cup UNION {{<<c.id, th, TRUE, "model", [outcome |-> "response", category_id |-> 0], reply>> :
                    th \in CallerSplitThresholds, reply \in ServiceReplies(c.transaction_ids)} :
                 c \in {x \in OwnClusters(1) : Len(x.transaction_ids) >= 2}}

NextService ==
    \/ \E th \in Thresholds, o \in ServiceOutcomes :
          RecalculateWithService(1, 1, th, o[1], o[2])
    \/ \E req \in ServiceSplitRequests :
          ReclusterWithService(1, req[1], req[2], req[3], req[4], req[5], req[6])

SpecService == Init /\ [][NextService]_vars

(***************************************************************************)
(* Imports, manual creations and soft deletions of transactions.  Here the *)
(* database is the table of transactions: db.rows.  A label is the         *)
(* sequence of its parts between "|" characters, and a fingerprint is the   *)
(* sequence of the parts of the text that is hashed (sha256 is injective   *)
(* on the texts met).                                                      *)
(***************************************************************************)
MaxTransactionId == 2

DEDUP_DATE_WINDOW_DAYS == 7

ImportDates == {1, 5}

ImportLabels == {<<"AMAZON">>, <<"amazon">>, <<"amazon", "1">>}

\* label.strip().lower()
LowerLabel(label) ==
    [i \in DOMAIN label |-> IF label[i] \in DOMAIN Lower THEN Lower[label[i]] ELSE label[i]]

IndexText == [i \in 1..2 |-> IF i = 1 THEN "1" ELSE "2"]

\* ImportService._compute_hash: date|amount|label|index
import_compute_hash(txn_date, amount, label, index) ==
    [date |-> txn_date, amount |-> amount, rest |-> LowerLabel(label) \o <<IndexText[index]>>]

\* TransactionService._compute_hash: date|amount|label
compute_hash(txn_date, amount, label) ==
    [date |-> txn_date, amount |-> amount, rest |-> LowerLabel(label)]

NewTransaction(account_id, txn_date, amount, label_raw, dedup_hash, source) ==
    [id |-> 0, account_id |-> account_id, date |-> txn_date, amount |-> amount,
     label_raw |-> label_raw, dedup_hash |-> dedup_hash, source |-> source,
     deleted |-> FALSE]

\* idx_transactions_dedup: unique on dedup_hash where deleted_at IS NULL
UniqueDedup(rows) ==
    \A a, b \in rows :
       (~a.deleted /\ ~b.deleted /\ a.dedup_hash = b.dedup_hash) => a.id = b.id

\* the flush: the pending rows get their ids in the order they were added
Flush(rows, next_id, pending) ==
    rows \cup {[pending[i] EXCEPT !.id = next_id + i - 1] : i \in DOMAIN pending}

\* _is_duplicate_fuzzy over the rows the query sees
is_duplicate_fuzzy(visible, account_id, txn_date, amount, label_raw) ==
    \E t \in visible :
       /\ t.account_id = account_id
       /\ t.amount = amount
       /\ t.date >= txn_date - DEDUP_DATE_WINDOW_DAYS
       /\ t.date <= txn_date + DEDUP_DATE_WINDOW_DAYS
       /\ ~t.deleted
       /\ LowerLabel(t.label_raw) = LowerLabel(label_raw)

\* the loop of import_file over the parsed rows <<date, amount, label>>; a
\* query sees the rows added before it when the session flushes before
\* queries
RECURSIVE import_rows(_, _, _, _, _, _)
import_rows(rows, account_id, parsed_txns, i, autoflush, acc) ==
    IF i > Len(parsed_txns) THEN acc
    ELSE LET pt == parsed_txns[i]
             index == Cardinality({j \in 1..i :
                          /\ parsed_txns[j][1] = pt[1]
                          /\ parsed_txns[j][2] = pt[2]
                          /\ LowerLabel(parsed_txns[j][3]) = LowerLabel(pt[3])})
             dedup_hash == import_compute_hash(pt[1], pt[2], pt[3], index)
             visible == IF autoflush THEN rows \cup SeqToSet(acc.pending) ELSE rows
             duplicate ==
                \/ \E t \in visible : t.dedup_hash = dedup_hash /\ ~t.deleted
                \/ is_duplicate_fuzzy(visible, account_id, pt[1], pt[2], pt[3])
         IN import_rows(rows, account_id, parsed_txns, i + 1, autoflush,
               IF duplicate THEN [acc EXCEPT !.duplicates = @ + 1]
               ELSE [acc EXCEPT !.imported = @ + 1,
                                !.pending = Append(@, NewTransaction(account_id, pt[1], pt[2],
                                                        pt[3], dedup_hash, "import_csv"))])

import_file(rows, next_id, u, account_id, parsed_txns, autoflush) ==
    LET done == import_rows(rows, account_id, parsed_txns, 1, autoflush,
                            [pending |-> << >>, imported |-> 0, duplicates |-> 0])
        after == Flush(rows, next_id, done.pending)
    IN IF AccountOwner[account_id] # u
       THEN [result |-> "NotFoundError", rows |-> rows, added |-> 0,
             imported_count |-> 0, duplicate_count |-> 0]
       ELSE IF parsed_txns = << >>
       THEN [result |-> "ValidationError", rows |-> rows, added |-> 0,
             imported_count |-> 0, duplicate_count |-> 0]
       ELSE IF ~UniqueDedup(after)
       THEN [result |-> "IntegrityError", rows |-> rows, added |-> 0,
             imported_count |-> 0, duplicate_count |-> 0]
       ELSE [result |-> "ok", rows |-> after, added |-> Len(done.pending),
             imported_count |-> done.imported, duplicate_count |-> done.duplicates]

ImportFile(u, account_id, parsed_txns, autoflush) ==
    \E r \in {import_file(db.rows, seq.transaction, u, account_id, parsed_txns, autoflush)} :
       /\ seq.transaction + r.added <= MaxTransactionId + 1
       /\ db' = [db EXCEPT !.rows = r.rows]
       /\ seq' = [seq EXCEPT !.transaction = @ + r.added]
       /\ last' = [op |-> "import_file", result |-> r.result,
                   imported_count |-> r.imported_count,
                   duplicate_count |-> r.duplicate_count]
       /\ UNCHANGED sess

\* TransactionService.create_transaction: the row is added and flushed
\* without a look at the rows that exist
CreateTransaction(u, account_id, txn_date, amount, label_raw) ==
    LET txn == NewTransaction(account_id, txn_date, amount, label_raw,
                              compute_hash(txn_date, amount, label_raw), "manual")
        after == Flush(db.rows, seq.transaction, <<txn>>)
        result == IF AccountOwner[account_id] # u THEN "ForbiddenError"
                  ELSE IF ~UniqueDedup(after) THEN "IntegrityError"
                  ELSE "ok"
    IN /\ result = "ok" => seq.transaction <= MaxTransactionId
       /\ db' = IF result = "ok" THEN [db EXCEPT !.rows = after] ELSE db
       /\ seq' = IF result = "ok" THEN [seq EXCEPT !.transaction = @ + 1] ELSE seq
       /\ last' = [op |-> "create_transaction", result |-> result,
                   imported_count |-> 0, duplicate_count |-> 0]
       /\ UNCHANGED sess

\* TransactionService.delete_transaction
DeleteTransaction(u, transaction_id) ==
    LET found == {t \in db.rows : t.id = transaction_id /\ ~t.deleted}
        txn == CHOOSE t \in found : TRUE
        result == IF found = {} THEN "NotFoundError"
                  ELSE IF AccountOwner[txn.account_id] # u THEN "ForbiddenError"
                  ELSE "ok"
    IN /\ db' = IF result = "ok"
                THEN [db EXCEPT !.rows = (@ \ {txn}) \cup {[txn EXCEPT !.deleted = TRUE]}]
                ELSE db
       /\ last' = [op |-> "delete_transaction", result |-> result,
                   imported_count |-> 0, duplicate_count |-> 0]
       /\ UNCHANGED <<seq, sess>>

\* the parsed files: one or two rows of the same amount
ImportFiles ==
    {<<<<d, 10, l>>>> : d \in ImportDates, l \in ImportLabels}
    \cup {<<<<1, 10, l>>, <<d, 10, m>>>> : d \in ImportDates, l \in ImportLabels, m \in ImportLabels}

InitImport ==
    /\ db = [rows |-> {}]
    /\ seq = [transaction |-> 1]
    /\ last = [op |-> "init", result |-> "ok", imported_count |-> 0, duplicate_count |-> 0]
    /\ sess = Idle

NextImport ==
    \/ \E u \in Users, account_id \in Accounts, file \in ImportFiles, autoflush \in BOOLEAN :
          ImportFile(u, account_id, file, autoflush)
    \/ \E u \in Users, account_id \in Accounts, d \in ImportDates, l \in ImportLabels :
          CreateTransaction(u, account_id, d, 10, l)
    \/ \E u \in Users, transaction_id \in 1..MaxTransactionId :
          DeleteTransaction(u, transaction_id)

SpecImport == InitImport /\ [][NextImport]_vars

(***************************************************************************)
(* Patches that name any of the fields of a cluster.                       *)
(***************************************************************************)
\* the updates of a cluster: one field or several, with a value or an empty
\* one
ClusterUpdates(cluster_id) ==
    {[NoUpdate EXCEPT !.cluster_id = cluster_id, !.keys = {"status"}, !.status = st] :
        st \in {"skipped", "", "none"}}
    \cup {[NoUpdate EXCEPT !.cluster_id = cluster_id, !.keys = {"override_category_id"},
                           !.override_category_id = cat] : cat \in {0, 2, BadCategory}}
    \cup {[NoUpdate EXCEPT !.cluster_id = cluster_id, !.keys = {"rule_pattern"},
                           !.rule_pattern = pattern] : pattern \in {"AMAZON", ""}}
    \cup {[NoUpdate EXCEPT !.cluster_id = cluster_id,
                           !.keys = {"custom_label", "excluded_ids"},
                           !.custom_label = "Achats", !.excluded_ids = <<1>>],
          [NoUpdate EXCEPT !.cluster_id = cluster_id,
                           !.keys = {"status", "custom_label", "excluded_ids"},
                           !.status = "pending", !.custom_label = "none"]}

\* the patch requests <<account, updates>> of user 1: one update on a cluster
\* of its own or of the other user, or two updates on the same cluster
PatchFieldRequests ==
    {<<1, <<upd>>>> : upd \in UNION {ClusterUpdates(c.id) : c \in db.clusters}}
    \cup {<<1, <<[NoUpdate EXCEPT !.cluster_id = c.id, !.keys = {"rule_pattern"},
                                  !.rule_pattern = "ZON"],
                 [NoUpdate EXCEPT !.cluster_id = c.id, !.keys = {"status", "rule_pattern"},
                                  !.status = "skipped", !.rule_pattern = "AMA"]>>>> :
             c \in OwnClusters(1)}

NextPatch ==
    \/ Recalculate(1, 1, 220, LlmOff)
    \/ \E req \in PatchFieldRequests : PatchProposal(1, req[1], req[2])

SpecPatch == Init /\ [][NextPatch]_vars

(***************************************************************************)
(* get_clusters on a fixed set of transactions, with the minimum size and  *)
(* the threshold the caller gives.  It writes nothing, so one call is      *)
(* followed from each set of transactions.                                 *)
(***************************************************************************)
ClusterSizes == {2, 3}

GetClusters(u, account_id, min_cluster_size, distance_threshold) ==
    \E data \in {get_clusters(db.txn, u, account_id, min_cluster_size, distance_threshold, LlmOff)} :
       /\ last.op = "init"
       /\ last' = [op |-> "get_clusters", result |-> "ok", user |-> u,
                   account_id |-> account_id, min_cluster_size |-> min_cluster_size,
                   distance_threshold |-> distance_threshold,
                   clusters |-> data.clusters,
                   unclustered_count |-> data.unclustered_count,
                   total_uncategorized |-> data.total_uncategorized]
       /\ UNCHANGED <<db, seq, sess>>

\* the transactions of account 1: any of them categorized, one deleted or
\* not, one without vector or not
InitClusters ==
    /\ \E categorized \in SUBSET (1..6), deleted \in {{}, {2}}, bare \in {{}, {5}} :
          db = [InitialDb(TRUE) EXCEPT
                  !.txn = [t \in TxnIds |->
                             [@[t] EXCEPT !.category_id = IF t \in categorized THEN 2 ELSE 0,
                                          !.ai_confidence = IF t \in categorized THEN "user"
                                                            ELSE "none",
                                          !.deleted = t \in deleted,
                                          !.embedding = t \notin bare]]]
    /\ seq = [proposal |-> 2, cluster |-> 2, rule |-> 2, tcluster |-> 1]
    /\ last = [op |-> "init", result |-> "ok"]
    /\ sess = Idle

NextClusters ==
    \E account_id \in {0, 1}, min_cluster_size \in ClusterSizes, th \in ClusterThresholds :
       GetClusters(1, account_id, min_cluster_size, th)

SpecClusters == InitClusters /\ [][NextClusters]_vars

(***************************************************************************)
(* label_parser.parse_label.  A label is the sequence of its words, which  *)
(* is what the strip and the collapse of spaces leave; the words are drawn  *)
(* from LabelWords, and each regular expression is modelled by what it      *)
(* matches among sequences of these words.  No word but the three payment  *)
(* modes starts with a payment mode of the source.  A counterparty that is  *)
(* None is the empty sequence, which parse_label treats as None.            *)
(***************************************************************************)
MaxLabelLen == 3

LabelWords ==
    {"CB", "CHQ", "ABONNEMENT", "-", "LECLERC", "NANTES", "NO123", "25/01", "DU", "140126",
     "CARTE", "4974XXXXXXXX3769"}

Labels == UNION {[1..n -> LabelWords] : n \in 0..MaxLabelLen}

\* the payment modes met, in the order of the source
PAYMENT_MODES == <<<<"CHQ", "check">>, <<"ABONNEMENT", "subscription">>, <<"CB", "card">>>>

IsMode(word) == \E i \in DOMAIN PAYMENT_MODES : PAYMENT_MODES[i][1] = word

TypeOfMode(mode) ==
    IF IsMode(mode)
    THEN PAYMENT_MODES[CHOOSE i \in DOMAIN PAYMENT_MODES : PAYMENT_MODES[i][1] = mode][2]
    ELSE "none"

\* \d{4}[\dX*]{4,}[\dX*]*\d{0,4}
IsCardNumber(word) == word = "4974XXXXXXXX3769"

\* (\d{2})(\d{2})(\d{2}) and (\d{2})/(\d{2})
IsDDMMYY(word) == word = "140126"

IsDayMonth(word) == word = "25/01"

\* _parse_date_components: the ISO date, of the current year when none is given
parse_date_components(word) == IF word = "140126" THEN "2026-01-14" ELSE "today.year-01-25"

\* (?:REF|ID|N[°O]?)\s*[:.]?\s*[\w/-]+ : a word that starts with N is one
IsReference(word) == word \in {"NANTES", "NO123"}

\* N[°O]?\s*(\d+)
HasCheckNumber(word) == word = "NO123"

check_number_of(word) == "123"

empty_result ==
    [payment_mode |-> "none", payment_type |-> "none", counterparty |-> << >>,
     card_id |-> "none", operation_date |-> "none", check_number |-> "none",
     raw_details |-> << >>]

\* _SEPARATOR_RE on words: a hyphen with a word on each side
Separators(label) == {i \in 2..(Len(label) - 1) : label[i] = "-"}

\* _match_payment_mode: the text starts with a payment mode
match_payment_mode(text) ==
    IF text # << >> /\ IsMode(text[1]) THEN text[1] ELSE "none"

\* _extract_mode_prefix: a payment mode followed by a space, or alone
extract_mode_prefix(label) ==
    IF Len(label) >= 2 /\ IsMode(label[1])
    THEN [mode_part |-> <<label[1]>>, details |-> Tail(label)]
    ELSE IF Len(label) = 1 /\ IsMode(label[1])
    THEN [mode_part |-> label, details |-> << >>]
    ELSE [mode_part |-> << >>, details |-> label]

\* lines 129-227
parse_label(label_raw) ==
    LET label == label_raw
        split == IF Separators(label) # {}
                 THEN [mode_part |-> SubSeq(label, 1, Min(Separators(label)) - 1),
                       details |-> SubSeq(label, Min(Separators(label)) + 1, Len(label))]
                 ELSE extract_mode_prefix(label)
        payment_mode == match_payment_mode(split.mode_part)
        payment_type == TypeOfMode(payment_mode)
        details == IF payment_mode # "none" THEN Tail(split.mode_part) \o split.details
                   ELSE split.details
        \* step 3: the card, at the end or inline
        n == Len(details)
        suffix == n >= 3 /\ details[n - 1] = "CARTE" /\ IsCardNumber(details[n])
        inline == {i \in 1..(n - 1) : details[i] = "CARTE" /\ IsCardNumber(details[i + 1])}
        card_id == IF suffix THEN details[n]
                   ELSE IF inline # {} THEN details[Min(inline) + 1] ELSE "none"
        after_card == IF suffix THEN SubSeq(details, 1, n - 2)
                      ELSE IF inline # {}
                      THEN SubSeq(details, 1, Min(inline) - 1)
                           \o SubSeq(details, Min(inline) + 2, n)
                      ELSE details
        \* step 4: the date, in front or at the end
        m == Len(after_card)
        prefix == m >= 3 /\ after_card[1] = "DU" /\ IsDDMMYY(after_card[2])
        trailing == m >= 2 /\ IsDayMonth(after_card[m])
        operation_date == IF prefix THEN parse_date_components(after_card[2])
                          ELSE IF trailing THEN parse_date_components(after_card[m])
                          ELSE "none"
        after_date == IF prefix THEN SubSeq(after_card, 3, m)
                      ELSE IF trailing THEN SubSeq(after_card, 1, m - 1)
                      ELSE after_card
        \* step 5: the check number
        numbered == {i \in DOMAIN after_date : HasCheckNumber(after_date[i])}
        check_number == IF payment_type \in {"check", "check_deposit"} /\ numbered # {}
                        THEN check_number_of(after_date[Min(numbered)]) ELSE "none"
        \* step 6: a reference at the end
        k == Len(after_date)
        counterparty == IF k >= 2 /\ IsReference(after_date[k])
                        THEN SubSeq(after_date, 1, k - 1) ELSE after_date
    IN IF label_raw = << >> THEN empty_result
       ELSE IF details = << >>
       THEN [empty_result EXCEPT !.payment_mode = payment_mode,
                                 !.payment_type = payment_type,
                                 !.counterparty = IF payment_mode = "none" THEN label
                                                  ELSE << >>]
       ELSE [payment_mode |-> payment_mode, payment_type |-> payment_type,
             counterparty |-> counterparty, card_id |-> card_id,
             operation_date |-> operation_date, check_number |-> check_number,
             raw_details |-> details]

\* the label a caller is about to parse
InitParseLabel ==
    /\ db = InitialDb(FALSE)
    /\ seq = [proposal |-> 2, cluster |-> 2, rule |-> 2, tcluster |-> 1]
    /\ \E label_raw \in Labels :
          last = [op |-> "call", result |-> "none", label_raw |-> label_raw,
                  parsed |-> empty_result]
    /\ sess = Idle

ParseLabel ==
    /\ last.op = "call"
    /\ last' = [last EXCEPT !.op = "parse_label", !.result = "ok",
                            !.parsed = parse_label(last.label_raw)]
    /\ UNCHANGED <<db, seq, sess>>

NextParseLabel == ParseLabel

SpecParseLabel == InitParseLabel /\ [][NextParseLabel]_vars

(***************************************************************************)
(* TransactionService.update_transaction: a manual category creates a      *)
(* rule from the label and applies it to the other transactions.           *)
(***************************************************************************)
\* the keywords update_transaction passes to create_rule_from_transaction
update_transaction_keywords ==
    {"user", "label_raw", "category_id", "custom_label", "pattern_override"}

\* _get_user_transaction: NotFoundError or ForbiddenError
get_user_transaction(txn, transaction_id, u) ==
    IF transaction_id \notin TxnIds \/ txn[transaction_id].deleted THEN "NotFoundError"
    ELSE IF TxnAccount[transaction_id] \notin UserAccounts(u) THEN "ForbiddenError"
    ELSE "ok"

\* apply_single_rule, lines 175-201: the uncategorized, non-deleted
\* transactions of the user that the rule matches
SingleRuleScope(txn, rule, u) ==
    {t \in TxnIds : /\ TxnAccount[t] \in UserAccounts(u)
                    /\ txn[t].category_id = 0
                    /\ ~txn[t].deleted
                    /\ matches(LabelRaw[t], rule.pattern, rule.match_type)}

apply_single_rule(txn, rule, u) ==
    [t \in TxnIds |->
        IF t \in SingleRuleScope(txn, rule, u)
        THEN [txn[t] EXCEPT !.category_id = rule.category_id,
                            !.ai_confidence = "rule",
                            !.label_clean = IF rule.custom_label # "none"
                                            THEN rule.custom_label ELSE @]
        ELSE txn[t]]

\* lines 277-329; category_id 0: the update does not give a category
update_transaction(d, s, transaction_id, u, category_id, create_rule, rule_pattern, custom_label) ==
    LET found == get_user_transaction(d.txn, transaction_id, u)
        failed(result) == [result |-> result, db |-> d, seq |-> s, rule_applied_count |-> 0]
        marked == [d.txn EXCEPT ![transaction_id].ai_confidence = "user"]
        binds == CallBinds(update_transaction_keywords, create_rule_from_transaction_params)
        made == create_rule_from_transaction(d.rules, s.rule, u, LabelRaw[transaction_id],
                                             category_id, custom_label)
        rule == CHOOSE r \in made.rules :
                   r.user_id = u /\ Lower[r.pattern] = Lower[LabelRaw[transaction_id]]
        relabel(txn) == [txn EXCEPT ![transaction_id].label_clean =
                                       IF custom_label # "none" THEN custom_label ELSE @]
        setattr(txn) == [txn EXCEPT ![transaction_id].category_id = category_id]
    IN IF found # "ok" THEN failed(found)
       ELSE IF category_id = 0
       THEN [result |-> "ok", db |-> d, seq |-> s, rule_applied_count |-> 0]
       ELSE IF ~create_rule
       THEN IF ~CategoryFK(category_id) THEN failed("IntegrityError")
            ELSE [result |-> "ok", db |-> [d EXCEPT !.txn = setattr(relabel(marked))],
                  seq |-> s, rule_applied_count |-> 0]
       ELSE IF ~binds THEN failed("TypeError")
       ELSE IF made.raised THEN failed("MultipleResultsFound")
       ELSE IF ~CategoryFK(category_id) THEN failed("IntegrityError")
       ELSE [result |-> "ok",
             db |-> [d EXCEPT !.rules = made.rules,
                              !.txn = setattr(apply_single_rule(relabel(marked), rule, u))],
             seq |-> [s EXCEPT !.rule = IF made.created THEN @ + 1 ELSE @],
             rule_applied_count |->
                 Cardinality(SingleRuleScope(relabel(marked), rule, u))]

UpdateTransaction(u, transaction_id, category_id, create_rule, rule_pattern, custom_label) ==
    LET r == update_transaction(db, seq, transaction_id, u, category_id, create_rule,
                                rule_pattern, custom_label)
    IN /\ seq.rule <= MaxRuleId
       /\ db' = get_db(db, r.db, r.result # "ok")
       /\ seq' = r.seq
       /\ last' = [op |-> "update_transaction", result |-> r.result,
                   rule_applied_count |-> r.rule_applied_count]
       /\ UNCHANGED sess

\* the updates <<transaction_id, category_id, create_rule, rule_pattern,
\* custom_label>> a user sends; create_rule is true unless the request says
\* otherwise
UpdateRequests ==
    {<<t, c, TRUE, p, "none">> : t \in {1, 4, 7}, c \in Categories, p \in {"none", "AMA"}}
    \cup {<<t, c, FALSE, "none", "none">> : t \in {1, 4, 7}, c \in Categories}
    \cup {<<1, 1, FALSE, "none", "Achats">>, <<1, 0, TRUE, "none", "none">>,
          <<1, BadCategory, FALSE, "none", "none">>, <<2, 1, TRUE, "none", "none">>,
          <<Cardinality(TxnIds) + 1, 1, TRUE, "none", "none">>}

NextUpdate ==
    \/ \E u \in Users : \E req \in UpdateRequests :
          UpdateTransaction(u, req[1], req[2], req[3], req[4], req[5])
    \/ \E in \in DerivedRuleInputs : CreateRuleFromTransaction(1, in[1], in[2], in[3])

SpecUpdate == InitRules /\ [][NextUpdate]_vars

(***************************************************************************)
(* The suggestion for one transaction under the values of the setting      *)
(* embedding_category_prefer_threshold: its default, and 0.                *)
(***************************************************************************)
PreferThresholds == {0, embedding_category_prefer_threshold}

SuggestWithSetting(prefer_cat, u, t, llm) ==
    /\ last' = [op |-> "suggest_setting", result |-> "ok", prefer_cat |-> prefer_cat,
                user |-> u, transaction |-> t, llm |-> llm,
                suggestion |-> suggest_category_with(prefer_cat, db.txn, u, t, llm)]
    /\ UNCHANGED <<db, seq, sess>>

NextPrefer ==
    \E prefer_cat \in PreferThresholds, t \in TxnIds, llm \in LlmOutcomes :
       SuggestWithSetting(prefer_cat, AccountOwner[TxnAccount[t]], t, llm)

SpecPrefer == InitSuggest /\ [][NextPrefer]_vars

(***************************************************************************)
(* CategoryService: the categories form a forest by parent_id; level,      *)
(* level1_id and level2_id cache the place of a category in it.  0 stands  *)
(* for null.                                                               *)
(***************************************************************************)
MaxCategoryId == 4
MaxLevel == 4

\* the categories the migrations seed: a system root and a system child
SeededCategories ==
    {[id |-> 1, user_id |-> 0, is_system |-> TRUE, parent_id |-> 0, level |-> 1,
      level1_id |-> 1, level2_id |-> 0],
     [id |-> 2, user_id |-> 0, is_system |-> TRUE, parent_id |-> 1, level |-> 2,
      level1_id |-> 1, level2_id |-> 2]}

\* db.get(Category, id): the category of that id; defined when it exists
GetCategory(categories, id) == CHOOSE c \in categories : c.id = id

CategoryExists(categories, id) == \E c \in categories : c.id = id

\* _compute_level_fields, lines 135-157: <<level, level1_id, level2_id>>
compute_level_fields(categories, parent_id) ==
    IF parent_id = 0 \/ ~CategoryExists(categories, parent_id) THEN <<1, 0, 0>>
    ELSE LET parent == GetCategory(categories, parent_id)
             level == parent.level + 1
         IN IF level = 2 THEN <<2, parent.id, 0>>
            ELSE <<level, parent.level1_id,
                   IF parent.level2_id # 0 THEN parent.level2_id ELSE parent.id>>

\* ForeignKey("categories.id") on parent_id
ParentFK(categories, parent_id) == parent_id = 0 \/ CategoryExists(categories, parent_id)

\* create_category, lines 54-83
create_category(categories, id, u, parent_id) ==
    LET fields == compute_level_fields(categories, parent_id)
        level == fields[1]
        category == [id |-> id, user_id |-> u, is_system |-> FALSE, parent_id |-> parent_id,
                     level |-> level,
                     level1_id |-> IF level = 1 THEN id ELSE fields[2],
                     level2_id |-> IF level = 2 THEN id ELSE fields[3]]
    IN IF ~ParentFK(categories, parent_id)
       THEN [result |-> "IntegrityError", categories |-> categories]
       ELSE [result |-> "ok", categories |-> categories \cup {category}]

\* _get_user_category, lines 159-171
get_user_category(categories, category_id, u) ==
    IF ~CategoryExists(categories, category_id) THEN "NotFoundError"
    ELSE IF GetCategory(categories, category_id).is_system THEN "ForbiddenError"
    ELSE IF GetCategory(categories, category_id).user_id # u THEN "ForbiddenError"
    ELSE "ok"

\* update_category, lines 98-115; parent_given: the update names parent_id.
\* The parent is read after the assignment of parent_id, so a category given
\* itself as parent is read with its former level fields.
update_category(categories, category_id, u, parent_given, parent_id) ==
    LET found == get_user_category(categories, category_id, u)
        category == GetCategory(categories, category_id)
        fields == compute_level_fields(categories, parent_id)
        updated == [category EXCEPT !.parent_id = parent_id, !.level = fields[1],
                                    !.level1_id = IF fields[1] > 1 THEN fields[2]
                                                  ELSE category.id,
                                    !.level2_id = fields[3]]
    IN IF found # "ok" THEN [result |-> found, categories |-> categories]
       ELSE IF ~parent_given THEN [result |-> "ok", categories |-> categories]
       ELSE IF ~ParentFK(categories, parent_id)
       THEN [result |-> "IntegrityError", categories |-> categories]
       ELSE [result |-> "ok", categories |-> (categories \ {category}) \cup {updated}]

CreateCategory(u, parent_id) ==
    LET r == create_category(db.categories, seq.category, u, parent_id)
    IN /\ seq.category <= MaxCategoryId
       /\ \A c \in r.categories : c.level <= MaxLevel
       /\ db' = [categories |-> get_db(db.categories, r.categories, r.result # "ok")]
       /\ seq' = [category |-> seq.category + 1]
       /\ last' = [op |-> "create_category", result |-> r.result]
       /\ UNCHANGED sess

UpdateCategory(u, category_id, parent_given, parent_id) ==
    LET r == update_category(db.categories, category_id, u, parent_given, parent_id)
    IN /\ \A c \in r.categories : c.level <= MaxLevel
       /\ db' = [categories |-> get_db(db.categories, r.categories, r.result # "ok")]
       /\ last' = [op |-> "update_category", result |-> r.result]
       /\ UNCHANGED <<seq, sess>>

InitCategory ==
    /\ db = [categories |-> SeededCategories]
    /\ seq = [category |-> Cardinality(SeededCategories) + 1]
    /\ last = [op |-> "init", result |-> "ok"]
    /\ sess = Idle

NextCategory ==
    \/ \E u \in Users, parent_id \in 0..(MaxCategoryId + 1) : CreateCategory(u, parent_id)
    \/ \E u \in Users, category_id \in 1..MaxCategoryId, parent_given \in BOOLEAN,
          parent_id \in 0..MaxCategoryId :
          UpdateCategory(u, category_id, parent_given, parent_id)

SpecCategory == InitCategory /\ [][NextCategory]_vars

(***************************************************************************)
(* Properties.                                                             *)
(***************************************************************************)
ProposalsOf(d, u, account_id) == FindProposal(d.proposals, u, account_id)

Fresh(c) ==
    /\ c.status = "pending" /\ c.override_category_id = 0 /\ c.excluded_ids = << >>
    /\ c.rule_pattern = "none" /\ c.custom_label = "none"

\* C1: there is at most one proposal per (user, account) after every request,
\* and a recalculate by the owner of an account that has a proposal succeeds
\* and keeps that proposal row (same id) as the only one of the pair.
C1_OneProposalPerPair ==
    [][/\ \A u \in Users, a \in Accounts : Cardinality(ProposalsOf(db', u, a)) <= 1
       /\ \A u \in Users, th \in Thresholds :
             /\ last'.op = "recalculate"
             /\ Recalculate(u, 1, th, LlmOff)
             /\ AccountOwner[1] = u
             /\ ProposalsOf(db, u, 1) # {}
             => /\ last'.result = "ok"
                /\ {p.id : p \in ProposalsOf(db', u, 1)}
                      = {p.id : p \in ProposalsOf(db, u, 1)}]_vars

\* a recalculate has replaced the clusters of a proposal that existed
C1_Witness ==
    /\ last.op = "recalculate" /\ last.result = "ok"
    /\ seq.proposal = 3
    /\ \E p \in ProposalsOf(db, 1, 1) :
          /\ ClustersOf(db, p) # {}
          /\ \A c \in ClustersOf(db, p) : c.id > 2

\* C2: after a recalculate that returns, the clusters of the proposal are the
\* groups of this run and nothing else: no cluster row of before is left, and
\* the i-th group is stored once, with cluster_index i - 1, pending, without
\* override, rule pattern, custom label or exclusions.
C2_RecalculateReplacesClusters ==
    [][\A u \in Users, th \in Thresholds :
          /\ last'.op = "recalculate"
          /\ last'.result = "ok"
          /\ Recalculate(u, 1, th, LlmOff)
          => \E p \in ProposalsOf(db', u, 1) :
                LET stored == ClustersOf(db', p)
                    data == get_clusters(db'.txn, u, 1, embedding_min_cluster_size, th, LlmOff)
                IN /\ p.distance_threshold = th
                   /\ {c.id : c \in stored} \cap {c.id : c \in db.clusters} = {}
                   /\ Cardinality(stored) = Len(data.clusters)
                   /\ \A i \in 1..Len(data.clusters) :
                         \E c \in stored : /\ c.cluster_index = i - 1
                                           /\ c.transaction_ids = data.clusters[i]
                                           /\ Fresh(c)]_vars

\* a second recalculate has produced two clusters
C2_Witness ==
    /\ last.op = "recalculate" /\ last.result = "ok"
    /\ \E p \in ProposalsOf(db, 1, 1) :
          /\ Cardinality(ClustersOf(db, p)) = 2
          /\ \A c \in ClustersOf(db, p) : c.id > 2

\* the clusters of a proposal are those of one run at its threshold, each once
SingleRun(d, p) ==
    LET stored == ClustersOf(d, p)
        data == get_clusters(d.txn, p.user_id, p.account_id, embedding_min_cluster_size,
                             p.distance_threshold, LlmOff)
    IN /\ Cardinality(stored) = Len(data.clusters)
       /\ \A i \in 1..Len(data.clusters) :
             \E c \in stored : c.cluster_index = i - 1 /\ c.transaction_ids = data.clusters[i]

\* C3: two recalculate requests of user 1 on account 1 that overlap are
\* serialized: once both have returned, neither has failed, the pair has one
\* proposal, and its clusters are those of one run at the threshold the
\* proposal records, each stored once.
C3_RecalculatesSerialized ==
    (\A s \in Sessions : sess[s].pc = "idle") =>
        /\ \A s \in Sessions : sess[s].result \in {"none", "ok"}
        /\ Cardinality(ProposalsOf(db, 1, 1)) <= 1
        /\ \A p \in ProposalsOf(db, 1, 1) : SingleRun(db, p)

\* C4: apply_cluster is all-or-nothing. When it fails, no transaction, rule,
\* proposal cluster or TransactionCluster differs from before the call; when
\* it succeeds, the caller's transactions among the ids carry the category and
\* the tag "user", the cluster is accepted with the category as override, and
\* one TransactionCluster holding the ids has been added, all in the same
\* state.
C4_ApplyAllOrNothing ==
    [][\A u \in Users : \A req \in ApplyRequests(u) :
          /\ last'.op = "apply"
          /\ ApplyCluster(u, req[1], req[2], req[3], req[4], "none", "none")
          => IF last'.result # "ok"
             THEN db' = db
             ELSE /\ \A t \in OwnTransactions(db.txn, u, req[2]) :
                        /\ db'.txn[t].category_id = req[3]
                        /\ db'.txn[t].ai_confidence = "user"
                  /\ \E c \in db'.clusters :
                        /\ c.id = req[1]
                        /\ c.status = "accepted"
                        /\ c.override_category_id = req[3]
                  /\ \E tc \in db'.tclusters :
                        /\ db'.tclusters = db.tclusters \cup {tc}
                        /\ tc \notin db.tclusters
                        /\ tc.transaction_ids = req[2]
                        /\ tc.category_id = req[3]]_vars

\* an apply has failed after it had written the category of the transactions
C4_Witness ==
    /\ last.op = "apply" /\ last.result = "TypeError"
    /\ \A t \in TxnIds : db.txn[t].category_id = 0
    /\ db.tclusters = {}

\* C5: the status of a proposal cluster changes only from pending to accepted
\* or from pending to skipped, and a cluster is created pending.
C5_StatusTransitions ==
    [][/\ \A c \in db.clusters : \A n \in db'.clusters :
             c.id = n.id /\ c.status # n.status
             => c.status = "pending" /\ n.status \in {"accepted", "skipped"}
       /\ \A n \in db'.clusters :
             n.id \notin {c.id : c \in db.clusters} => n.status = "pending"]_vars

\* C6: apply_cluster by the owner of the cluster, with an existing category
\* and create_rule true, succeeds; afterwards the caller's transactions among
\* the ids carry the category and the tag "user", the cluster is accepted with
\* the category as override, an active rule for the first transaction's raw
\* label targets the category, and exactly one TransactionCluster holding the
\* ids has been added.
C6_ApplyWithRule ==
    [][\A u \in Users : \A req \in ApplyRequests(u) :
          /\ last'.op = "apply"
          /\ req[4]
          /\ req[3] \in Categories
          /\ \E c \in OwnClusters(u) : c.id = req[1]
          /\ ApplyCluster(u, req[1], req[2], req[3], req[4], "none", "none")
          => /\ last'.result = "ok"
             /\ \A t \in OwnTransactions(db.txn, u, req[2]) :
                   /\ db'.txn[t].category_id = req[3]
                   /\ db'.txn[t].ai_confidence = "user"
             /\ \E c \in db'.clusters :
                   /\ c.id = req[1]
                   /\ c.status = "accepted"
                   /\ c.override_category_id = req[3]
             /\ OwnTransactions(db.txn, u, req[2]) # {}
                => \E r \in db'.rules :
                      /\ r.user_id = u /\ r.is_active /\ r.category_id = req[3]
                      /\ r.pattern = LabelRaw[Min(OwnTransactions(db.txn, u, req[2]))]
             /\ \E tc \in db'.tclusters :
                   /\ db'.tclusters = db.tclusters \cup {tc}
                   /\ tc \notin db.tclusters
                   /\ tc.transaction_ids = req[2]]_vars

C8_OwnershipIsolation ==
    [][/\ \A u \in Users : \A req \in ApplyRequests(u) :
             /\ last'.op = "apply"
             /\ ApplyCluster(u, req[1], req[2], req[3], req[4], "none", "none")
             => /\ (\E c \in OtherClusters(u) : c.id = req[1])
                   => last'.result # "ok" /\ db' = db
                /\ \A t \in TxnIds :
                      db'.txn[t].category_id # db.txn[t].category_id
                      => TxnAccount[t] \in UserAccounts(u)
       /\ \A u \in Users : \A req \in SplitRequests(u) :
             /\ last'.op = "recluster"
             /\ \E c \in OtherClusters(u) : c.id = req[1]
             /\ Recluster(u, req[1], req[2], "off", << >>)
             => last'.result # "ok" /\ db' = db
       /\ \A u \in Users :
             /\ last'.op = "update_rule"
             /\ \E r \in db.rules : r.id = 1 /\ r.user_id # u
             /\ UpdateRule(u, 1, 2, FALSE)
             => last'.result # "ok" /\ db' = db
       /\ \A u \in Users :
             /\ last'.op = "delete_rule"
             /\ \E r \in db.rules : r.id = 1 /\ r.user_id # u
             /\ DeleteRule(u, 1)
             => last'.result # "ok" /\ db' = db
       /\ last'.op # "apply" => \A t \in TxnIds :
                                   db'.txn[t].category_id = db.txn[t].category_id]_vars

\* an apply on a cluster of the other user has been refused while user 1 has
\* categorized transactions of its own
C8_Witness ==
    /\ last.op = "apply" /\ last.result = "HTTP404"
    /\ \E t \in TxnIds : db.txn[t].category_id # 0

\* C9: a patch whose update list names a cluster that is not a cluster of the
\* caller's proposal for the account is rejected, and none of its updates is
\* applied.
C9_PatchUnknownRejected ==
    [][\A u \in Users : \A req \in PatchRequests(u) :
          /\ last'.op = "patch"
          /\ \E i \in DOMAIN req[2] :
                req[2][i].cluster_id \notin
                   {c.id : c \in {x \in OwnClusters(u) :
                                     \E p \in db.proposals : /\ p.id = x.proposal_id
                                                             /\ p.account_id = req[1]}}
          /\ PatchProposal(u, req[1], req[2])
          => last'.result # "ok" /\ db' = db]_vars

\* C10: recluster on a cluster of the caller with fewer than two transaction
\* ids reports the error of a bad request and changes nothing.
C10_SplitTooSmall ==
    [][/\ \A u \in Users : \A req \in SplitRequests(u) :
             /\ last'.op = "recluster"
             /\ \E c \in OwnClusters(u) : c.id = req[1] /\ Len(c.transaction_ids) < 2
             /\ Recluster(u, req[1], req[2], "off", << >>)
             => last'.result = "HTTP400" /\ db' = db
       /\ \A c \in OwnClusters(1) :
             /\ last'.op = "recluster"
             /\ Len(c.transaction_ids) < 2
             /\ Recluster(1, c.id, 0, "up", << >>)
             => last'.result = "HTTP400" /\ db' = db]_vars

\* a split of a cluster of one transaction has been refused
C10_Witness ==
    /\ last.op = "recluster" /\ last.result = "HTTP400"
    /\ \E c \in OwnClusters(1) : Len(c.transaction_ids) = 1

\* the clusters a step removed and the clusters it added
Removed == db.clusters \ db'.clusters

Added == db'.clusters \ db.clusters

NoDuplicate(ids) == Cardinality(SeqToSet(ids)) = Len(ids)

\* C11: a recluster that succeeds and changes the proposal replaces one
\* cluster by at least two clusters, none empty, pairwise disjoint, whose ids
\* together are exactly the ids of the replaced cluster.
C11_SplitPartitions ==
    [][/\ last'.op = "recluster"
       /\ last'.result = "ok"
       /\ db' # db
       => /\ Cardinality(Removed) = 1
          /\ Cardinality(Added) >= 2
          /\ \A n \in Added : n.transaction_ids # << >> /\ NoDuplicate(n.transaction_ids)
          /\ \A n, m \in Added :
                n # m => SeqToSet(n.transaction_ids) \cap SeqToSet(m.transaction_ids) = {}
          /\ \A c \in Removed :
                UNION {SeqToSet(n.transaction_ids) : n \in Added} = SeqToSet(c.transaction_ids)]_vars

\* C12: a recluster that leaves the proposal as it was reports an error, never
\* a success.
C12_SplitRejected ==
    [][/\ last'.op = "recluster"
       /\ db'.clusters = db.clusters
       => last'.result # "ok"]_vars

\* C13: a recluster that succeeds and changes the proposal removes the
\* cluster it split and nothing else; the clusters it adds are pending, belong
\* to the same proposal and take the indices that follow the highest index of
\* the other clusters; the indices of the proposal are then pairwise distinct.
C13_SplitFrame ==
    [][/\ last'.op = "recluster"
       /\ last'.result = "ok"
       /\ db'.clusters # db.clusters
       => \E c \in db.clusters :
             LET others == {o \in db.clusters : o.proposal_id = c.proposal_id /\ o # c}
                 max_index == IF others = {} THEN -1
                              ELSE Max({o.cluster_index : o \in others})
                 after == {o \in db'.clusters : o.proposal_id = c.proposal_id}
             IN /\ Removed = {c}
                /\ c.id \notin {o.id : o \in db'.clusters}
                /\ db'.clusters \ Added = db.clusters \ {c}
                /\ db' = [db EXCEPT !.clusters = db'.clusters]
                /\ \A n \in Added : n.status = "pending" /\ n.proposal_id = c.proposal_id
                /\ {n.cluster_index : n \in Added}
                      = (max_index + 1)..(max_index + Cardinality(Added))
                /\ \A a, b \in after : a # b => a.cluster_index # b.cluster_index]_vars

\* a cluster was split next to another cluster of its proposal, and one was
\* split into two
C13_Witness ==
    /\ last.op = "recluster" /\ last.result = "ok"
    /\ \/ \E n, o \in OwnClusters(1) : /\ n.proposal_id = o.proposal_id
                                       /\ n.id > o.id + 1
                                       /\ n.cluster_index = o.cluster_index + 1
                                       /\ n.cluster_index >= 2
       \/ \E n, o \in OwnClusters(1) : /\ n.proposal_id = o.proposal_id
                                       /\ n.id = o.id + 1
                                       /\ o.id > 2
                                       /\ o.cluster_index = 0 /\ n.cluster_index = 1

\* the active rules of a user that match a label
MatchingRules(u, label) ==
    {r \in db.rules : /\ r.user_id = u
                      /\ r.is_active
                      /\ matches(label, r.pattern, r.match_type)}

\* C14: apply_rules gives every uncategorized, non-deleted transaction in its
\* scope that an active rule of the user matches the category of a matching
\* active rule of the highest priority.
C14_HighestPriorityWins ==
    [][\A u \in Users, account_id \in {0} \cup Accounts :
          /\ last'.op = "apply_rules"
          /\ ApplyRules(u, account_id)
          => \A t \in TxnIds :
                LET hits == MatchingRules(u, LabelRaw[t])
                    top == {r \in hits : \A o \in hits : r.priority >= o.priority}
                IN /\ InScope(u, account_id, t)
                   /\ db.txn[t].category_id = 0
                   /\ ~db.txn[t].deleted
                   /\ hits # {}
                   => db'.txn[t].category_id \in {r.category_id : r \in top}]_vars

\* rules were applied and a transaction has the category of the rule of higher
\* priority while an active rule of lower priority and another category
\* matches it too
C14_Witness ==
    /\ last.op = "apply_rules"
    /\ \E t \in TxnIds : \E r, o \in MatchingRules(1, LabelRaw[t]) :
          /\ TxnAccount[t] \in UserAccounts(1)
          /\ r.priority > o.priority
          /\ r.category_id # o.category_id
          /\ db.txn[t].ai_confidence = "rule"
          /\ db.txn[t].category_id = r.category_id

\* C15: apply_rules changes nothing but transactions; a transaction it changes
\* was uncategorized, not deleted, in an account of the user (the given account
\* when one is given) and matched by an active rule of the user, and it gets
\* that rule's category, the confidence "rule" and the rule's custom label
\* when the rule has one.
C15_ApplyRulesFrame ==
    [][\A u \in Users, account_id \in {0} \cup Accounts :
          /\ last'.op = "apply_rules"
          /\ ApplyRules(u, account_id)
          => /\ db' = [db EXCEPT !.txn = db'.txn]
             /\ seq' = seq
             /\ \A t \in TxnIds :
                   db'.txn[t] # db.txn[t]
                   => /\ AccountOwner[TxnAccount[t]] = u
                      /\ (account_id # 0 => TxnAccount[t] = account_id)
                      /\ db.txn[t].category_id = 0
                      /\ ~db.txn[t].deleted
                      /\ \E r \in MatchingRules(u, LabelRaw[t]) :
                            db'.txn[t] = [db.txn[t] EXCEPT
                                            !.category_id = r.category_id,
                                            !.ai_confidence = "rule",
                                            !.label_clean = IF r.custom_label # "none"
                                                            THEN r.custom_label ELSE @]]_vars

\* rules were applied to account 1 with a custom label, next to a transaction
\* categorized by hand, a deleted one, the other user's and a rule switched off
C15_Witness ==
    /\ last.op = "apply_rules"
    /\ db.txn[1].ai_confidence = "rule" /\ db.txn[1].label_clean = "Achats"
    /\ db.txn[3].ai_confidence = "user"
    /\ db.txn[2].deleted /\ db.txn[2].category_id = 0
    /\ db.txn[7].category_id = 0
    /\ \E r \in db.rules : r.user_id = 1 /\ ~r.is_active /\ r.pattern = "ZON"

Added_rules == db'.rules \ db.rules

\* C16: create_rule_from_transaction succeeds; when an active rule of the user
\* has the pattern (case-insensitively) it refreshes that rule and adds none,
\* otherwise it adds exactly one rule, active, with the derived priority.
C16_DerivedRuleUnique ==
    [][\A in \in DerivedRuleInputs :
          /\ last'.op = "create_rule_from_transaction"
          /\ CreateRuleFromTransaction(1, in[1], in[2], in[3])
          => LET same == {r \in db.rules : /\ r.user_id = 1
                                           /\ r.is_active
                                           /\ Lower[r.pattern] = Lower[in[1]]}
             IN /\ last'.result = "ok"
                /\ same # {}
                   => /\ {r.id : r \in db'.rules} = {r.id : r \in db.rules}
                      /\ \A r \in db'.rules :
                            (\E o \in same : o.id = r.id) => r.category_id = in[2]
                /\ same = {}
                   => \E r \in Added_rules :
                         /\ Added_rules = {r}
                         /\ db.rules \subseteq db'.rules
                         /\ r.is_active
                         /\ r.priority = DerivedRulePriority]_vars

\* what a cluster proposes: its place, its members, its label, its suggestion
Membership(c) ==
    [cluster_index |-> c.cluster_index, transaction_ids |-> c.transaction_ids,
     representative_label |-> c.representative_label]

Suggestion(c) ==
    [category_id |-> c.suggested_category_id, confidence |-> c.suggestion_confidence,
     source |-> c.suggestion_source]

\* a recalculate of user 1 on account 1 that succeeds right after one that
\* succeeded, at the same threshold
RecalculatedAgain(th, llm) ==
    /\ last.op = "recalculate" /\ last.result = "ok"
    /\ last'.op = "recalculate" /\ last'.result = "ok"
    /\ \E p \in ProposalsOf(db, 1, 1) : p.distance_threshold = th
    /\ Recalculate(1, 1, th, llm)

FirstThatSucceeds(txn, u, account_id, vector, llm) ==
    LET neighbours == suggest_from_neighbors(txn, vector, Classified(txn, u, account_id))
        semantics == get_best_category_suggestion(vector)
    IN IF neighbours # NoSuggestion THEN neighbours
       ELSE IF semantics.similarity >= embedding_category_threshold THEN Stored(semantics)
       ELSE llm_suggestion(llm)

\* C19: the suggestion for a transaction, and for each cluster of a
\* recalculate, is that of the first strategy that succeeds in the order
\* neighbours, category semantics, language model.
C19_FirstStrategyWins ==
    [][/\ \A t \in TxnIds, llm \in LlmOutcomes :
             /\ last'.op = "suggest"
             /\ SuggestTransaction(AccountOwner[TxnAccount[t]], t, llm)
             => last'.suggestion
                = FirstThatSucceeds(db.txn, AccountOwner[TxnAccount[t]], 0, Embed[t], llm)
       /\ \A th \in Thresholds, llm \in LlmOutcomes :
             /\ last'.op = "recalculate"
             /\ last'.result = "ok"
             /\ Recalculate(1, 1, th, llm)
             => \A c \in OwnClusters(1)' :
                   Suggestion(c) = FirstThatSucceeds(db'.txn, 1, 1,
                                                     Centroid(SeqToSet(c.transaction_ids)),
                                                     llm)]_vars

\* C20: whatever the response text, suggest_category does not raise and gives
\* no suggestion or a suggestion whose category is one of the caller's: the
\* one the response names by id, else the one it names by name, whatever the
\* case.
C20_ParsedCategoryAllowed ==
    last.op = "suggest_category"
    => /\ last.result = "ok"
       /\ \/ last.suggestion = NoSuggestion
          \/ /\ last.suggestion.category_id \in Categories
             /\ last.response.kind = "object"
             /\ \/ /\ last.response.fields.category_id.type \in {"int", "float", "bool"}
                   /\ last.response.fields.category_id.value = last.suggestion.category_id
                \/ /\ ~ /\ last.response.fields.category_id.type \in {"int", "float", "bool"}
                        /\ last.response.fields.category_id.value \in Categories
                   /\ last.response.fields.category_name.type = "str"
                   /\ Lower[last.response.fields.category_name.value]
                         = Lower[CategoryName[last.suggestion.category_id]]

\* a response wrapped in prose names a category that is not the caller's by
\* id, and one of the caller's by name in another case
C20_Witness ==
    /\ last.op = "suggest_category"
    /\ last.response.wrapped
    /\ last.response.fields.category_id = Field("int", BadCategory)
    /\ last.response.fields.category_name = Field("str", "courses")
    /\ last.suggestion.category_id = 1

\* C21: when the language-model service fails during the availability check or
\* a generate call of recalculate or recluster, the operation ends with its
\* own result, no error of the service reaches the caller, and no cluster it
\* writes carries a suggestion of the language model.
C21_ServiceFailureContained ==
    [][(/\ last'.op \in {"recalculate", "recluster"}
        /\ (last'.op = "recluster" => last'.use_llm)
        /\ (is_available(last'.tags) # "True" \/ ~Answered(last'.generate)))
       => (/\ last'.result \notin TagsOutcomes
           /\ \A c \in Added : c.suggestion_source \notin {"llm", "llm_fragment"})]_vars

\* C22: after any imports, manual creations and soft deletions, no two
\* transactions that are not deleted have the same fingerprint, and none of
\* these operations fails on a fingerprint that a transaction already holds.
C22_FingerprintUnique ==
    /\ \A a, b \in db.rows :
          (~a.deleted /\ ~b.deleted /\ a.id # b.id) => a.dedup_hash # b.dedup_hash
    /\ (last.op \in {"import_file", "create_transaction", "delete_transaction"}
        => last.result # "IntegrityError")

\* the updates of a list that name a field of a cluster, and the value the
\* last of them gives
Naming(updates, cluster_id, key) ==
    {i \in DOMAIN updates : updates[i].cluster_id = cluster_id /\ key \in updates[i].keys}

Given(updates, cluster_id, key) == updates[Max(Naming(updates, cluster_id, key))][key]

PatchFields == {"status", "override_category_id", "rule_pattern", "custom_label", "excluded_ids"}

\* a step changes nothing but clusters, and of a cluster nothing but the
\* fields a patch can name
OnlyPatchFields ==
    /\ db'.txn = db.txn /\ db'.proposals = db.proposals
    /\ db'.rules = db.rules /\ db'.tclusters = db.tclusters
    /\ {c.id : c \in db'.clusters} = {c.id : c \in db.clusters}
    /\ \A c \in db.clusters : \A d \in db'.clusters :
          c.id = d.id => \A f \in (DOMAIN c) \ PatchFields : d[f] = c[f]

\* C23 as stated: a patch sets each field an update names on a cluster of
\* the caller's proposal to the value given, and changes nothing else.
C23_PatchSetsNamedFields ==
    [][\A req \in PatchFieldRequests :
          (/\ last'.op = "patch"
           /\ PatchProposal(1, req[1], req[2]))
          => /\ OnlyPatchFields
             /\ \A c \in db.clusters : \A d \in db'.clusters : \A f \in PatchFields :
                   c.id = d.id
                   => d[f] = IF c \in OwnClusters(1) /\ Naming(req[2], c.id, f) # {}
                             THEN Given(req[2], c.id, f) ELSE c[f]]_vars

\* C23, with what the code does of an empty value: a patch that succeeds
\* changes only the fields its updates name on clusters of the caller's
\* proposal; a named status that is not empty, a named category override and
\* named excluded ids are set to the value given, a named rule pattern or
\* custom label to the value given or to none when it is empty, and a status
\* named with an empty value is left as it is.
C23_PatchFrame ==
    [][\A req \in PatchFieldRequests :
          (/\ last'.op = "patch"
           /\ last'.result = "ok"
           /\ PatchProposal(1, req[1], req[2]))
          => /\ OnlyPatchFields
             /\ \A c \in db.clusters : \A d \in db'.clusters : \A f \in PatchFields :
                   c.id = d.id
                   => LET named == {i \in Naming(req[2], c.id, f) :
                                       f = "status" => req[2][i].status \notin {"none", ""}}
                          value == req[2][Max(named)][f]
                      IN d[f] = IF c \in OwnClusters(1) /\ named # {}
                                THEN (IF f \in {"rule_pattern", "custom_label"} /\ value = ""
                                      THEN "none" ELSE value)
                                ELSE c[f]]_vars

\* a patch of one field reached a cluster that an earlier patch had given
\* another field
C23_Witness ==
    /\ last.op = "patch" /\ last.result = "ok"
    /\ \E c \in OwnClusters(1) :
          /\ c.status = "skipped"
          /\ c.override_category_id = 2
          /\ c.rule_pattern = "AMA"
          /\ c.custom_label = "none"

\* the transactions get_clusters groups: uncategorized, not deleted, with a
\* vector, in the scope
Clusterable(txn, u, account_id) ==
    {t \in TxnIds : /\ InScope(u, account_id, t)
                    /\ ~txn[t].deleted
                    /\ txn[t].category_id = 0
                    /\ txn[t].embedding}

\* C24: for a fixed set of transactions and a fixed minimum size, every
\* cluster get_clusters gives at a threshold is within one group, and so
\* within one cluster, of the clustering at any higher threshold.
C24_ThresholdMonotone ==
    last.op = "get_clusters"
    => \A t2 \in ClusterThresholds :
          t2 > last.distance_threshold
          => LET higher == get_clusters(db.txn, last.user, last.account_id,
                                        last.min_cluster_size, t2, LlmOff).clusters
             IN \A i \in DOMAIN last.clusters :
                   /\ \E g \in fit_predict[Clusterable(db.txn, last.user, last.account_id), t2] :
                         SeqToSet(last.clusters[i]) \subseteq g
                   /\ \E j \in DOMAIN higher :
                         SeqToSet(last.clusters[i]) \subseteq SeqToSet(higher[j])

\* two clusters at a threshold are within one cluster at a higher one
C24_Witness ==
    /\ last.op = "get_clusters"
    /\ Len(last.clusters) >= 2
    /\ \E t2 \in ClusterThresholds :
          /\ t2 > last.distance_threshold
          /\ \E g \in fit_predict[Clusterable(db.txn, last.user, last.account_id), t2] :
                /\ SeqToSet(last.clusters[1]) \subseteq g
                /\ SeqToSet(last.clusters[2]) \subseteq g

\* C25: parse_label returns for every label, and parsing the counterparty it
\* returned gives that counterparty again and extracts no payment mode, card,
\* date or check number.
C25_ParseLabelIdempotent ==
    last.op = "parse_label"
    => /\ last.result = "ok"
       /\ LET again == parse_label(last.parsed.counterparty)
          IN /\ again.counterparty = last.parsed.counterparty
             /\ again.payment_mode = "none"
             /\ again.card_id = "none"
             /\ again.operation_date = "none"
             /\ again.check_number = "none"

\* the threshold of the embedding split: the caller's, else half the
\* proposal's, within [0.08, 0.5]
FallbackThreshold(distance_threshold, proposal_threshold) ==
    Max({SplitThresholdMin,
         Min({SplitThresholdMax,
              IF distance_threshold # 0 THEN distance_threshold
              ELSE proposal_threshold \div 2})})

C27_ClustersPartition ==
    last.op = "get_clusters"
    => LET scope == Clusterable(db.txn, last.user, last.account_id)
           Members(i) == SeqToSet(last.clusters[i])
       IN /\ \A i \in DOMAIN last.clusters :
                /\ Len(last.clusters[i]) >= last.min_cluster_size
                /\ NoDuplicate(last.clusters[i])
                /\ Members(i) \subseteq scope
          /\ \A i, j \in DOMAIN last.clusters : i # j => Members(i) \cap Members(j) = {}
          /\ SumOver([i \in DOMAIN last.clusters |-> Len(last.clusters[i])],
                     DOMAIN last.clusters) + last.unclustered_count
               = Cardinality(scope)

\* a result with a cluster and transactions left unclustered
C27_Witness ==
    /\ last.op = "get_clusters"
    /\ Len(last.clusters) >= 1
    /\ last.unclustered_count >= 1
    /\ last.unclustered_count < Cardinality(Clusterable(db.txn, last.user, last.account_id))

\* the uncategorized, non-deleted transactions of the user, other than the
\* updated one, whose label contains the pattern of the rule
OtherMatching(u, transaction_id, pattern) ==
    {t \in TxnIds \ {transaction_id} :
        /\ TxnAccount[t] \in UserAccounts(u)
        /\ db.txn[t].category_id = 0
        /\ ~db.txn[t].deleted
        /\ matches(LabelRaw[t], pattern, "contains")}

\* C28: update_transaction by the owner with an existing category and
\* create_rule left true succeeds; afterwards the transaction has the
\* category and the tag "user", a rule of the user maps the label (or the
\* given rule pattern) to the category, every other matching uncategorized
\* transaction of the user has the category and the tag "rule", and
\* rule_applied_count is the number of those transactions.
C28_UpdateCreatesAndAppliesRule ==
    [][\A u \in Users : \A req \in UpdateRequests :
          LET pattern == IF req[4] # "none" THEN req[4] ELSE LabelRaw[req[1]]
          IN /\ last'.op = "update_transaction"
             /\ req[3]
             /\ req[2] \in Categories
             /\ get_user_transaction(db.txn, req[1], u) = "ok"
             /\ UpdateTransaction(u, req[1], req[2], req[3], req[4], req[5])
             => /\ last'.result = "ok"
                /\ db'.txn[req[1]].category_id = req[2]
                /\ db'.txn[req[1]].ai_confidence = "user"
                /\ \E r \in db'.rules :
                      r.user_id = u /\ r.category_id = req[2] /\ r.pattern = pattern
                /\ \A t \in OtherMatching(u, req[1], pattern) :
                      /\ db'.txn[t].category_id = req[2]
                      /\ db'.txn[t].ai_confidence = "rule"
                /\ last'.rule_applied_count
                      = Cardinality(OtherMatching(u, req[1], pattern))]_vars

\* C29: with embedding_category_prefer_threshold at 0, the suggestion for a
\* transaction is not the category-semantics match when the vote of the
\* neighbours would succeed, and is never a category-semantics match whose
\* similarity is below embedding_category_threshold.
C29_ZeroDisablesPreference ==
    (last.op = "suggest_setting" /\ last.prefer_cat = 0)
    => /\ (suggest_from_neighbors(db.txn, Embed[last.transaction],
                                  Classified(db.txn, last.user, 0)) # NoSuggestion
           => last.suggestion.source # "category_semantics")
       /\ (last.suggestion.source = "category_semantics"
           => get_best_category_suggestion(Embed[last.transaction]).similarity
                 >= embedding_category_threshold)

\* the ids from a category up its parent chain, as far as steps allow
RECURSIVE ParentChain(_, _, _)
ParentChain(categories, id, steps) ==
    IF steps = 0 \/ id = 0 \/ ~CategoryExists(categories, id) THEN << >>
    ELSE <<id>> \o ParentChain(categories, GetCategory(categories, id).parent_id, steps - 1)

\* the chain of a category ends at a root
ReachesRoot(categories, c) ==
    LET chain == ParentChain(categories, c.id, Cardinality(categories))
    IN GetCategory(categories, chain[Len(chain)]).parent_id = 0

\* level, level1_id and level2_id of a category agree with its parent chain
AgreesWithChain(categories, c) ==
    LET chain == ParentChain(categories, c.id, Cardinality(categories))
        depth == Len(chain)
    IN /\ ReachesRoot(categories, c)
       /\ c.level = depth
       /\ c.level1_id = chain[depth]
       /\ c.level2_id = IF depth >= 2 THEN chain[depth - 1] ELSE 0

\* C30: after any sequence of create_category and update_category, the level
\* of every user category is its depth, its level1_id is its root ancestor
\* (itself for a root) and its level2_id is its level-2 ancestor (itself at
\* level 2, null for a root).
C30_HierarchyAgrees ==
    \A c \in db.categories : ~c.is_system => AgreesWithChain(db.categories, c)

====
